---------------------------- MODULE Spec2Model ----------------------------
(***************************************************************************)
(* A model of kcenon/rust_database_system: the pooled SQLite backend with  *)
(* its transaction affinity guard (src/src/backends/pooled_sqlite.rs), the  *)
(* direct SQLite backend (src/src/backends/sqlite.rs) and the RAII          *)
(* transaction guard (src/src/core/transaction.rs), and the migration       *)
(* manager (src/src/core/migration.rs).                                     *)
(*                                                                         *)
(* The pooled backend and the direct backend are two separate programs     *)
(* state; SpecPool moves only the first, SpecDirect only the second.       *)
(***************************************************************************)
EXTENDS Integers, Naturals, Sequences, FiniteSets, TLC

(***************************************************************************)
(* Bounds of the model.                                                    *)
(***************************************************************************)
\* concurrent callers of the pooled backend
NumPoolTasks == 2
\* concurrent callers of the direct backend
NumDirectTasks == 2
\* primary keys a statement may insert
MaxKeys == 2
\* the largest PoolConfig.max_size a caller passes in
MaxCfgSize == 2
\* The pool's effective capacity.  with_config builds the pool from
\* Config::new(connection_string) alone, so the capacity is deadpool's
\* default (4 per CPU) whatever PoolConfig.max_size says; the model scales it
\* down so that the callers can exhaust it.
PoolCapacity == 2

PoolTasks == 1..NumPoolTasks
DirectTasks == 1..NumDirectTasks
\* the blocking-pool closure that the teardown of task t's TransactionGuard
\* schedules runs in a slot of its own, next to the task's own calls
AutoOf(t) == t + NumDirectTasks
AutoTasks == {AutoOf(t) : t \in DirectTasks}
DirectSlots == DirectTasks \cup AutoTasks
Keys == 1..MaxKeys
Conns == 1..PoolCapacity
\* Option::None of a connection
NoConn == 0

(***************************************************************************)
(* The SQL engine (SQLite), as far as the backends observe it.  One         *)
(* database is shared by the connections: `committed` is what every        *)
(* connection sees, a connection inside a transaction also sees its own    *)
(* pending rows.                                                           *)
(***************************************************************************)
StmtOps == {"BEGIN", "COMMIT", "ROLLBACK", "SELECT", "INSERT"}

Stmt(op, k) == [op |-> op, key |-> k]

Statements == {Stmt(op, 0) : op \in {"BEGIN", "COMMIT", "ROLLBACK", "SELECT"}}
              \cup {Stmt("INSERT", k) : k \in Keys}

\* How one engine call can end for the caller that awaits it:
\*   ok            the engine ran the statement and answered
\*   fault         the engine answered with an error (I/O, busy, ...)
\*   interact      the blocking closure failed before it ran the statement
\*   timeout_done  the operation timeout expired; the statement ran anyway
\*   timeout_lost  the operation timeout expired; the statement never ran
Outcomes == {"ok", "fault", "interact", "timeout_done", "timeout_lost"}

\* the statement reaches the engine and the engine is willing to run it
Reaches(outcome) == outcome \in {"ok", "timeout_done"}

\* Whether the engine accepts `stmt` on a connection whose transaction state
\* is `txn`, which sees `seen`, while `locked` says another connection holds
\* the write lock.
EngineAccepts(stmt, txn, seen, locked) ==
    CASE stmt.op = "BEGIN"    -> ~txn
      [] stmt.op = "COMMIT"   -> txn
      [] stmt.op = "ROLLBACK" -> txn
      [] stmt.op = "SELECT"   -> TRUE
      [] stmt.op = "INSERT"   -> stmt.key \notin seen /\ ~locked

\* The engine state after `stmt` ran on a connection: [txn, pending, committed].
EngineApply(stmt, txn, pending, commit) ==
    CASE stmt.op = "BEGIN"    -> [txn |-> TRUE,  pending |-> pending, committed |-> commit]
      [] stmt.op = "COMMIT"   -> [txn |-> FALSE, pending |-> {}, committed |-> commit \cup pending]
      [] stmt.op = "ROLLBACK" -> [txn |-> FALSE, pending |-> {}, committed |-> commit]
      [] stmt.op = "SELECT"   -> [txn |-> txn, pending |-> pending, committed |-> commit]
      [] stmt.op = "INSERT"   ->
            IF txn
            THEN [txn |-> txn, pending |-> pending \cup {stmt.key}, committed |-> commit]
            ELSE [txn |-> txn, pending |-> pending, committed |-> commit \cup {stmt.key}]

\* What the caller is told: the statement's own result when the engine call
\* came back in time, QueryTimeout when the timeout won the race, Other when
\* the interact closure failed, SqliteError when the engine refused.
ResultOf(outcome, accepted) ==
    CASE outcome = "ok"       -> IF accepted THEN "Ok" ELSE "SqliteError"
      [] outcome = "fault"    -> "SqliteError"
      [] outcome = "interact" -> "Other"
      [] OTHER                -> "QueryTimeout"

\* The error kinds of src/src/core/error.rs that the modelled paths return.
Results == {"none", "Ok", "ConnectionError", "ConnectionTimeout", "QueryTimeout", "Other",
            "SqliteError", "TransactionError", "QueryError", "false", "true"}

VARIABLES
    \* ---- pooled backend ------------------------------------------------
    cfgMaxSize,     \* PoolConfig.max_size the pool was built with
    pool,           \* deadpool's pool: [size, available (FIFO of idle connections)]
    pCommitted,     \* rows committed in the database behind the pool
    connTxn,        \* per connection: a SQL transaction is open on it
    connPending,    \* per connection: rows written in its open transaction
    call,           \* per task: its in-flight pooled call [pc, kind, conn] and, for
                    \* the properties, the pool's size when the call began (size0);
                    \* after a timeout, the closure the call left behind ("late",
                    \* "late_run") and the statement it carries (stmt)
    tx,             \* per task: its PooledTransaction [live, connection, committed, rolled_back]
                    \* and, for the properties, the connection begin borrowed
                    \* (began), the rows inserted through it (wrote) and what the
                    \* connection saw when BEGIN ran (snapshot)
    pLast,          \* the call that returned last: [by, op, conn, stmt, result] and, when
                    \* it consumed a guard, the guard's fields at teardown
    abandoned,      \* for the properties: rows written through guards that were dropped
                    \* while Open and are still pending on the connection they left
    scope           \* per task: where its invocation of Database::transaction stands
                    \* [pc] and, for the properties, the rows its closure inserted (wrote)

poolVars == <<cfgMaxSize, pool, pCommitted, connTxn, connPending, call, tx, pLast, abandoned,
              scope>>

VARIABLES
    \* ---- direct backend (SqliteDatabase) and TransactionGuard ------------
    connection,     \* Arc<Mutex<Option<Connection>>>: TRUE when Some
    in_transaction, \* Arc<Mutex<bool>>: the transaction flag
    connLock,       \* the task whose code holds the connection mutex, 0 when free
    flagLock,       \* the task whose code holds the flag mutex, 0 when free
    dCommitted,     \* rows committed in the database the backend opened
    dTxn,           \* a SQL transaction is open on the backend's connection
    dPending,       \* rows written in that open transaction
    dAtBegin,       \* for the properties: what was visible when that transaction began
    dcall,          \* per task: its in-flight call and the blocking worker serving it
                    \* [pc, op, guard, awaited]
    tg,             \* per task: it holds a live TransactionGuard
    tgWrote,        \* for the properties: per task, the rows inserted through the
                    \* guard it holds or held last
    dLast,          \* the answer a worker or call produced in the step just taken
    dropped,        \* the SqliteDatabase itself has been dropped
    dBegunBy        \* for the properties: the caller whose BEGIN opened the transaction

directVars == <<connection, in_transaction, connLock, flagLock, dCommitted, dTxn, dPending,
                dAtBegin, dcall, tg, tgWrote, dLast, dropped, dBegunBy>>

VARIABLES
    \* ---- MigrationManager over a SQLite database ---------------------------
    migrations,     \* BTreeMap<i64, Migration>: the versions registered
    records,        \* the rows of the schema_migrations table (version is its key),
                    \* in the order of their applied_at
    schema,         \* the versions whose up_sql is in effect in the database
    mLast           \* the call of the manager that returned last: [op, arg, result,
                    \* versions] and, for the properties, the statements it ran
                    \* (ran) and the records it found (applied0)

migVars == <<migrations, records, schema, mLast>>

\* which backend the program was built with: "pooled" (PooledSqliteDatabase),
\* "sqlite" (SqliteDatabase) or "postgres" (PostgresDatabase, whose client,
\* flag and two mutexes are held in the variables of the direct backend)
VARIABLE backend

vars == <<backend, migVars, poolVars, directVars>>

\* no call of the manager has returned
NoMLast == [op |-> "none", arg |-> 0, result |-> "none", versions |-> <<>>, ran |-> <<>>,
            applied0 |-> <<>>]

\* MigrationManager::new over a database that holds nothing yet
InitManager ==
    /\ migrations = {}
    /\ records = <<>>
    /\ schema = {}
    /\ mLast = NoMLast

NoCall == [pc |-> "idle", kind |-> "verb", conn |-> NoConn, size0 |-> 0, stmt |-> Stmt("none", 0)]
NoTx == [live |-> FALSE, connection |-> NoConn, committed |-> FALSE, rolled_back |-> FALSE,
         began |-> NoConn, wrote |-> {}, snapshot |-> {}]
NoScope == [pc |-> "none", wrote |-> {}]
NoLast == [by |-> 0, op |-> "none", conn |-> NoConn, stmt |-> "SELECT", result |-> "none",
           committed |-> FALSE, rolled_back |-> FALSE, connection |-> NoConn,
           warned |-> FALSE]

\* PooledSqliteDatabase::with_config: the pool is created and one connection
\* is borrowed, initialised with two PRAGMAs and returned.
InitPool ==
    /\ cfgMaxSize \in 1..MaxCfgSize
    /\ pool = [size |-> 1, available |-> <<1>>]
    /\ pCommitted = {}
    /\ connTxn = [c \in Conns |-> FALSE]
    /\ connPending = [c \in Conns |-> {}]
    /\ call = [t \in PoolTasks |-> NoCall]
    /\ tx = [t \in PoolTasks |-> NoTx]
    /\ pLast = NoLast
    /\ abandoned = {}
    /\ scope = [t \in PoolTasks |-> NoScope]

(***************************************************************************)
(* deadpool's pool, as pooled_sqlite.rs uses it: get() hands out the        *)
(* longest-idle connection, creates one while the pool is below capacity,  *)
(* and otherwise waits; dropping the borrowed object returns it.           *)
(***************************************************************************)
pool_get_ready == pool.available # <<>> \/ pool.size < PoolCapacity

pool_get_conn == IF pool.available # <<>> THEN Head(pool.available) ELSE pool.size + 1

pool_after_get ==
    IF pool.available # <<>>
    THEN [pool EXCEPT !.available = Tail(@)]
    ELSE [pool EXCEPT !.size = @ + 1]

pool_return(p, c) == [p EXCEPT !.available = Append(@, c)]

\* PooledSqliteDatabase::stats
stats ==
    [size |-> pool.size,
     available |-> Len(pool.available),
     waiting |-> Cardinality({t \in PoolTasks : call[t].pc = "wait"})]

\* connections borrowed by an in-flight call
InFlight == {call[t].conn : t \in {u \in PoolTasks : call[u].pc = "run"}}

\* connections pinned by an Open guard
Pinned == {tx[t].connection : t \in {u \in PoolTasks : tx[u].live /\ tx[u].connection # NoConn}}

Idle == {pool.available[i] : i \in 1..Len(pool.available)}

\* what connection c sees
Visible(c) == pCommitted \cup connPending[c]

WriteLocked(c) == \E d \in Conns : d # c /\ connPending[d] # {}

Accepted(c, stmt) == EngineAccepts(stmt, connTxn[c], Visible(c), WriteLocked(c))

\* the closure of the call got hold of the connection and ran its statement
Engages(outcome) == outcome \in {"ok", "fault", "timeout_done"}

\* (mutant) a connection whose closures do not wait for one another
conn_free_always(c) == TRUE

\* conn.interact runs its closure on a blocking thread with the connection's
\* own mutex held: a closure starts once no closure left behind by a timed-out
\* call is still inside the connection
conn_free(c) == \A u \in PoolTasks : ~(call[u].pc = "late_run" /\ call[u].conn = c)

\* conn.interact(closure) raced against operation_timeout: the statement's
\* effect on the engine.
RunOn(c, stmt, outcome) ==
    /\ Engages(outcome) => conn_free(c)
    /\ LET e == EngineApply(stmt, connTxn[c], connPending[c], pCommitted)
       IN  IF Reaches(outcome) /\ Accepted(c, stmt)
           THEN /\ connTxn' = [connTxn EXCEPT ![c] = e.txn]
                /\ connPending' = [connPending EXCEPT ![c] = e.pending]
                /\ pCommitted' = e.committed
                /\ abandoned' = IF stmt.op \in {"COMMIT", "ROLLBACK"}
                                THEN abandoned \ connPending[c]
                                ELSE abandoned
           ELSE UNCHANGED <<connTxn, connPending, pCommitted, abandoned>>

Returned(t, op, c, stmt, res) ==
    [NoLast EXCEPT !.by = t, !.op = op, !.conn = c, !.stmt = stmt.op, !.result = res]

\* The first half of every verb of `impl Database for PooledSqliteDatabase`
\* (execute, query, the parameterized variants, begin_transaction, commit,
\* rollback) and of PooledTransaction::begin: self.pool.get().await.
Acquire(t, kind) ==
    /\ call[t].pc = "idle"
    /\ IF pool_get_ready
       THEN /\ call' = [call EXCEPT ![t] = [pc |-> "run", kind |-> kind, conn |-> pool_get_conn,
                                                 size0 |-> pool.size, stmt |-> Stmt("none", 0)]]
            /\ pool' = pool_after_get
       ELSE /\ call' = [call EXCEPT ![t] = [pc |-> "wait", kind |-> kind, conn |-> NoConn,
                                                 size0 |-> pool.size, stmt |-> Stmt("none", 0)]]
            /\ pool' = pool
    /\ UNCHANGED <<cfgMaxSize, pCommitted, connTxn, connPending, tx, pLast, abandoned, scope, backend, migVars,
                   directVars>>

\* a caller enters a pooled verb
VerbStart(t) == Acquire(t, "verb")

\* PooledTransaction::begin, up to the borrow
BeginStart(t) ==
    /\ ~tx[t].live
    /\ Acquire(t, "begin")

\* pool.get() of a waiting caller completes once a connection is free
Wake(t) ==
    /\ call[t].pc = "wait"
    /\ pool_get_ready
    /\ call' = [call EXCEPT ![t].pc = "run", ![t].conn = pool_get_conn]
    /\ pool' = pool_after_get
    /\ UNCHANGED <<cfgMaxSize, pCommitted, connTxn, connPending, tx, pLast, abandoned, scope, backend, migVars,
                   directVars>>

\* (mutant) a verb that keeps its connection when the timeout won the race
verb_release_unless_timeout(p, c, res) == IF res = "QueryTimeout" THEN p ELSE pool_return(p, c)

\* `conn` of a pooled verb goes out of scope when the verb returns, on Ok and
\* on every `?`: the connection returns to the pool
verb_release(p, c, res) == pool_return(p, c)

\* The second half of a pooled verb: the statement runs inside the timeout
\* window and `conn` goes out of scope, on success and on every `?`.
VerbReturns(t, outcome) ==
    /\ call[t].pc = "run"
    /\ call[t].kind = "verb"
    /\ \E stmt \in Statements :
         LET c == call[t].conn
             res == ResultOf(outcome, Accepted(c, stmt))
         IN  /\ RunOn(c, stmt, outcome)
             /\ pLast' = Returned(t, "verb", c, stmt, res)
             /\ pool' = verb_release(pool, c, res)
             /\ call' = [call EXCEPT ![t] = NoCall]
    /\ UNCHANGED <<cfgMaxSize, tx, scope, backend, migVars, directVars>>

VerbFinish(t) == \E outcome \in Outcomes : VerbReturns(t, outcome)

\* (mutant) a failed begin that keeps the connection it borrowed
begin_failed_leak(p, c) == p

\* What PooledTransaction::begin does with the connection it borrowed when
\* BEGIN did not succeed: the `?` drops `conn`, which returns it.
begin_failed(p, c) == pool_return(p, c)

\* PooledTransaction::begin, from BEGIN on
BeginReturns(t, outcome) ==
    /\ call[t].pc = "run"
    /\ call[t].kind = "begin"
    /\ LET c == call[t].conn
             stmt == Stmt("BEGIN", 0)
             res == ResultOf(outcome, Accepted(c, stmt))
         IN  /\ RunOn(c, stmt, outcome)
             /\ pLast' = Returned(t, "begin", c, stmt, res)
             /\ IF res = "Ok"
                THEN /\ tx' = [tx EXCEPT ![t] = [live |-> TRUE, connection |-> c,
                                                 committed |-> FALSE, rolled_back |-> FALSE,
                                                 began |-> c, wrote |-> {},
                                                 snapshot |-> Visible(c)]]
                     /\ pool' = pool
                ELSE /\ tx' = tx
                     /\ pool' = begin_failed(pool, c)
             /\ call' = [call EXCEPT ![t] = NoCall]
    /\ UNCHANGED <<cfgMaxSize, scope, backend, migVars, directVars>>

BeginFinish(t) == \E outcome \in Outcomes : BeginReturns(t, outcome)

\* tokio::time::timeout(operation_timeout, ..) of a pooled call expires while
\* the interact closure has not got its statement through
PoolTimeout(t) == VerbReturns(t, "timeout_lost") \/ BeginReturns(t, "timeout_lost")

\* (mutant) a guard operation that borrows from the pool again instead of
\* using the connection it pinned
guard_connection_reborrow(t) ==
    IF tx[t].connection # NoConn /\ pool.available # <<>>
    THEN Head(pool.available)
    ELSE tx[t].connection

\* self.connection.as_ref(): the connection a guard operation targets
guard_connection(t) == tx[t].connection

\* PooledTransaction::execute / execute_with_params / query / query_with_params
GuardExecute(t) ==
    /\ tx[t].live
    /\ call[t].pc = "idle"
    /\ \E stmt \in {s \in Statements : s.op \in {"INSERT", "SELECT"}}, outcome \in Outcomes :
         LET c == guard_connection(t)
         IN  IF c = NoConn
             THEN /\ pLast' = Returned(t, "tx_execute", NoConn, stmt, "TransactionError")
                  /\ UNCHANGED <<connTxn, connPending, pCommitted, tx, abandoned>>
             ELSE /\ RunOn(c, stmt, outcome)
                  /\ pLast' = Returned(t, "tx_execute", c, stmt,
                                       ResultOf(outcome, Accepted(c, stmt)))
                  /\ tx' = [tx EXCEPT ![t].wrote =
                               IF stmt.op = "INSERT" /\ Reaches(outcome) /\ Accepted(c, stmt)
                               THEN @ \cup {stmt.key} ELSE @]
    /\ UNCHANGED <<cfgMaxSize, pool, call, scope, backend, migVars, directVars>>

\* (mutant) a rollback that issues COMMIT
finalize_sql_commits(sql) == Stmt("COMMIT", 0)

\* conn.execute("COMMIT", []) of PooledTransaction::commit and
\* conn.execute("ROLLBACK", []) of PooledTransaction::rollback
finalize_sql(sql) == Stmt(sql, 0)

\* (mutant) a Drop that warns whenever neither terminal flag is set
drop_warns_unflagged(committed, rolled_back, conn) == ~committed /\ ~rolled_back

\* impl Drop for PooledTransaction: the condition of the warning
drop_warns(committed, rolled_back, conn) == ~committed /\ ~rolled_back /\ conn # NoConn

\* (mutant) a commit or rollback that gives the connection back only when its
\* statement succeeded
finalize_release_on_ok(p, c, res) == IF res = "Ok" THEN pool_return(p, c) ELSE p

\* `conn`, taken out of the guard, goes out of scope on Ok and on every `?`
\* of commit and rollback: the connection returns to the pool
finalize_release(p, c, res) == pool_return(p, c)

\* PooledTransaction::commit (sql = "COMMIT") and PooledTransaction::rollback
\* (sql = "ROLLBACK"): both take self by value, so the guard is gone when they
\* return, and the connection they took out of it is returned to the pool.
\* pLast keeps the fields the guard had when it was torn down.
Finalize(t, sql, outcome) ==
    /\ tx[t].live
    /\ call[t].pc = "idle"
    /\ IF tx[t].committed \/ tx[t].rolled_back \/ tx[t].connection = NoConn
       THEN /\ pLast' = [Returned(t, sql, NoConn, Stmt(sql, 0), "TransactionError")
                           EXCEPT !.committed = tx[t].committed,
                                  !.rolled_back = tx[t].rolled_back,
                                  !.connection = tx[t].connection,
                                  !.warned = drop_warns(tx[t].committed, tx[t].rolled_back,
                                                        tx[t].connection)]
            /\ tx' = [tx EXCEPT ![t] = NoTx]
            /\ UNCHANGED <<connTxn, connPending, pCommitted, pool, abandoned>>
       ELSE LET c == tx[t].connection
                stmt == finalize_sql(sql)
                res == ResultOf(outcome, Accepted(c, stmt))
            IN  /\ RunOn(c, stmt, outcome)
                /\ pLast' = [Returned(t, sql, c, stmt, res)
                               EXCEPT !.committed = (sql = "COMMIT" /\ res = "Ok"),
                                      !.rolled_back = (sql = "ROLLBACK" /\ res = "Ok"),
                                      !.warned = drop_warns(sql = "COMMIT" /\ res = "Ok",
                                                            sql = "ROLLBACK" /\ res = "Ok",
                                                            NoConn)]
                /\ tx' = [tx EXCEPT ![t] = NoTx]
                /\ pool' = finalize_release(pool, c, res)
    /\ UNCHANGED <<cfgMaxSize, call, scope, backend, migVars, directVars>>

GuardCommit(t) == \E outcome \in Outcomes : Finalize(t, "COMMIT", outcome)

GuardRollback(t) == \E outcome \in Outcomes : Finalize(t, "ROLLBACK", outcome)

\* impl Drop for PooledTransaction, on a guard that was never finalized: a
\* warning is printed, no SQL is issued, and the connection field is dropped,
\* which returns the connection to the pool as it is.
GuardDrop(t) ==
    /\ tx[t].live
    /\ call[t].pc = "idle"
    /\ pLast' = [Returned(t, "drop", NoConn, Stmt("SELECT", 0), "none")
                   EXCEPT !.committed = tx[t].committed,
                          !.rolled_back = tx[t].rolled_back,
                          !.connection = tx[t].connection,
                          !.warned = drop_warns(tx[t].committed, tx[t].rolled_back,
                                                tx[t].connection)]
    /\ tx' = [tx EXCEPT ![t] = NoTx]
    /\ pool' = IF tx[t].connection # NoConn THEN pool_return(pool, tx[t].connection) ELSE pool
    /\ abandoned' = IF tx[t].connection # NoConn
                    THEN abandoned \cup (tx[t].wrote \cap connPending[tx[t].connection])
                    ELSE abandoned
    /\ UNCHANGED <<cfgMaxSize, pCommitted, connTxn, connPending, call, scope, backend, migVars, directVars>>

\* tokio::time::timeout drops the interact future of a verb or of
\* PooledTransaction::begin: the caller gets QueryTimeout and `conn` goes back
\* to the pool, while the closure stays on the blocking pool with its
\* statement still to run.
Abandon(t) ==
    /\ call[t].pc = "run"
    /\ \E stmt \in IF call[t].kind = "begin" THEN {Stmt("BEGIN", 0)} ELSE Statements :
         LET c == call[t].conn
         IN  /\ pLast' = Returned(t, call[t].kind, c, stmt, "QueryTimeout")
             /\ pool' = IF call[t].kind = "begin"
                        THEN begin_failed(pool, c)
                        ELSE verb_release(pool, c, "QueryTimeout")
             /\ call' = [call EXCEPT ![t].pc = "late", ![t].stmt = stmt]
    /\ UNCHANGED <<cfgMaxSize, pCommitted, connTxn, connPending, tx, abandoned, scope, backend, migVars,
                   directVars>>

\* the closure left behind gets hold of the connection
LateLock(t) ==
    /\ call[t].pc = "late"
    /\ conn_free(call[t].conn)
    /\ call' = [call EXCEPT ![t].pc = "late_run"]
    /\ UNCHANGED <<cfgMaxSize, pool, pCommitted, connTxn, connPending, tx, pLast, abandoned,
                   scope, backend, migVars, directVars>>

\* the closure left behind runs its statement and ends; nobody reads its result
LateRun(t) ==
    /\ call[t].pc = "late_run"
    /\ \E outcome \in {"ok", "fault"} :
         LET c == call[t].conn
             stmt == call[t].stmt
             e == EngineApply(stmt, connTxn[c], connPending[c], pCommitted)
         IN  IF outcome = "ok" /\ Accepted(c, stmt)
             THEN /\ connTxn' = [connTxn EXCEPT ![c] = e.txn]
                  /\ connPending' = [connPending EXCEPT ![c] = e.pending]
                  /\ pCommitted' = e.committed
                  /\ abandoned' = IF stmt.op \in {"COMMIT", "ROLLBACK"}
                                  THEN abandoned \ connPending[c]
                                  ELSE abandoned
             ELSE UNCHANGED <<connTxn, connPending, pCommitted, abandoned>>
    /\ call' = [call EXCEPT ![t] = NoCall]
    /\ UNCHANGED <<cfgMaxSize, pool, tx, pLast, scope, backend, migVars, directVars>>

\* (mutant) an in_transaction that reports the caller's Open guard
pooled_in_transaction_tracks(t) == IF tx[t].live THEN "true" ELSE "false"

\* what PooledSqliteDatabase::in_transaction returns
pooled_in_transaction(t) == "false"

\* PooledSqliteDatabase::in_transaction: a synchronous call that prints a
\* warning in debug builds and returns; the pool is not touched
InTransaction(t) ==
    /\ call[t].pc = "idle"
    /\ pLast' = [NoLast EXCEPT !.by = t, !.op = "in_transaction",
                              !.result = pooled_in_transaction(t)]
    /\ UNCHANGED <<cfgMaxSize, pool, pCommitted, connTxn, connPending, call, tx, abandoned,
                   scope, backend, migVars, directVars>>

\* (mutant) a health probe that keeps the connection it borrowed
probe_release_never(p, c) == p

\* `let _ = self.pool.get().await..?`: the borrowed connection is dropped in
\* the statement that borrowed it
probe_release(p, c) == pool_return(p, c)

\* PooledSqliteDatabase::is_connected
pooled_is_connected == pool.size > 0

\* PooledSqliteDatabase::connect: the connection string is ignored; one
\* connection is borrowed, which creates one when none is idle and the pool
\* has room and waits when it has none, and is returned at once.
PoolConnect(t) ==
    /\ call[t].pc = "idle"
    /\ IF pool_get_ready
       THEN /\ pool' = probe_release(pool_after_get, pool_get_conn)
            /\ call' = call
            /\ pLast' = Returned(t, "connect", pool_get_conn, Stmt("none", 0), "Ok")
       ELSE /\ pool' = pool
            /\ call' = [call EXCEPT ![t] = [pc |-> "wait", kind |-> "connect", conn |-> NoConn,
                                            size0 |-> pool.size, stmt |-> Stmt("none", 0)]]
            /\ pLast' = pLast
    /\ UNCHANGED <<cfgMaxSize, pCommitted, connTxn, connPending, tx, abandoned, scope, backend, migVars,
                   directVars>>

\* connect, after it had to wait for its connection
PoolConnectDone(t) ==
    /\ call[t].pc = "run"
    /\ call[t].kind = "connect"
    /\ pool' = probe_release(pool, call[t].conn)
    /\ call' = [call EXCEPT ![t] = NoCall]
    /\ pLast' = Returned(t, "connect", call[t].conn, Stmt("none", 0), "Ok")
    /\ UNCHANGED <<cfgMaxSize, pCommitted, connTxn, connPending, tx, abandoned, scope, backend, migVars,
                   directVars>>

\* PooledSqliteDatabase::disconnect: Ok(()), nothing else
PoolDisconnect(t) ==
    /\ call[t].pc = "idle"
    /\ pLast' = Returned(t, "disconnect", NoConn, Stmt("none", 0), "Ok")
    /\ UNCHANGED <<cfgMaxSize, pool, pCommitted, connTxn, connPending, call, tx, abandoned,
                   scope, backend, migVars, directVars>>

(***************************************************************************)
(* Database::transaction, src/src/core/database.rs, on the pooled backend: *)
(* begin_transaction, the closure's statements and commit or rollback are   *)
(* verbs of PooledSqliteDatabase, each with a borrow of its own.            *)
(***************************************************************************)
\* the invocation enters its next verb: self.begin_transaction(), a statement
\* of f(self), self.commit() or self.rollback()
ScopedStart(t) == Acquire(t, "scoped")

\* where the invocation stands once the verb has returned `res`:
\* begin_transaction().await? leaves on an error, the closure goes on after
\* each of its statements, commit and rollback end the invocation
scope_after(t, stmt, res, wrote) ==
    CASE stmt.op = "BEGIN" -> IF res = "Ok" THEN [pc |-> "body", wrote |-> {}] ELSE NoScope
      [] stmt.op \in {"COMMIT", "ROLLBACK"} -> NoScope
      [] OTHER -> [scope[t] EXCEPT !.wrote = @ \cup wrote]

\* The verb in flight returns.  Before the closure runs it is
\* begin_transaction; afterwards it is a statement of the closure, or, the
\* closure having returned Ok or Err, commit or rollback.
ScopedReturns(t, outcome) ==
    /\ call[t].pc = "run"
    /\ call[t].kind = "scoped"
    /\ \E stmt \in IF scope[t].pc = "none"
                   THEN {Stmt("BEGIN", 0)}
                   ELSE {s \in Statements : s.op # "BEGIN"} :
         LET c == call[t].conn
             res == ResultOf(outcome, Accepted(c, stmt))
             wrote == IF stmt.op = "INSERT" /\ Reaches(outcome) /\ Accepted(c, stmt)
                      THEN {stmt.key} ELSE {}
         IN  /\ RunOn(c, stmt, outcome)
             /\ pLast' = Returned(t, "transaction", c, stmt, res)
             /\ pool' = verb_release(pool, c, res)
             /\ scope' = [scope EXCEPT ![t] = scope_after(t, stmt, res, wrote)]
             /\ call' = [call EXCEPT ![t] = NoCall]
    /\ UNCHANGED <<cfgMaxSize, tx, backend, migVars, directVars>>

ScopedFinish(t) == \E outcome \in Outcomes : ScopedReturns(t, outcome)

NextPool ==
    \E t \in PoolTasks :
        \/ VerbStart(t)
        \/ BeginStart(t)
        \/ Wake(t)
        \/ VerbFinish(t)
        \/ BeginFinish(t)
        \/ GuardExecute(t)
        \/ GuardCommit(t)
        \/ GuardRollback(t)
        \/ GuardDrop(t)

(***************************************************************************)
(* The direct backend, src/src/backends/sqlite.rs.  Every verb clones the  *)
(* two Arcs, hands a closure to spawn_blocking and races the join handle   *)
(* against DEFAULT_OPERATION_TIMEOUT.  A worker that has started cannot be  *)
(* aborted: after a timeout it runs on with nobody awaiting it.            *)
(***************************************************************************)
NoDCall == [pc |-> "idle", op |-> "exec", guard |-> FALSE, awaited |-> FALSE]
NoDLast == [by |-> 0, op |-> "none", stmt |-> "none", key |-> 0, result |-> "none",
            fault |-> FALSE, awaited |-> FALSE, undone |-> {}]

\* SqliteDatabase::new
InitDirect ==
    /\ connection = FALSE
    /\ in_transaction = FALSE
    /\ connLock = 0
    /\ flagLock = 0
    /\ dCommitted = {}
    /\ dTxn = FALSE
    /\ dPending = {}
    /\ dAtBegin = {}
    /\ dcall = [t \in DirectSlots |-> NoDCall]
    /\ tg = [t \in DirectSlots |-> FALSE]
    /\ tgWrote = [t \in DirectTasks |-> {}]
    /\ dLast = NoDLast
    /\ dropped = FALSE
    /\ dBegunBy = 0

TxnOps == {"begin", "commit", "rollback"}
WorkerOps == {"exec", "open"} \cup TxnOps

\* (mutant) a lock that never makes its caller wait
lock_free_always(l) == TRUE

\* Mutex::lock / blocking_lock return once nobody holds the mutex
lock_free(l) == l = 0

DVisible == dCommitted \cup dPending

\* dropping the Connection closes the session: SQLite rolls back what was open
SessionClosed == /\ dTxn' = FALSE
                 /\ dPending' = {}
                 /\ dAtBegin' = {}
                 /\ dCommitted' = dCommitted

\* the engine runs `stmt` on the backend's connection
DRun(stmt) ==
    LET e == EngineApply(stmt, dTxn, dPending, dCommitted)
    IN  /\ dTxn' = e.txn
        /\ dPending' = e.pending
        /\ dCommitted' = e.committed
        /\ dAtBegin' = CASE stmt.op = "BEGIN" -> DVisible
                         [] stmt.op \in {"COMMIT", "ROLLBACK"} -> {}
                         [] OTHER -> dAtBegin

DAccepted(stmt) == EngineAccepts(stmt, dTxn, DVisible, FALSE)

\* what the worker that finished last was doing and what it returned
\* and, for the properties, the rows a successful ROLLBACK discarded
DSaid(t, op, stmt, res, fault) ==
    [by |-> t, op |-> op, stmt |-> stmt.op, key |-> stmt.key, result |-> res, fault |-> fault,
     awaited |-> dcall[t].awaited,
     undone |-> IF res = "Ok" /\ stmt.op = "ROLLBACK" THEN dPending ELSE {}]

\* A caller enters execute / query / execute_with_params / query_with_params /
\* begin_transaction / commit / rollback: the closure is queued on the
\* blocking pool and the caller awaits it.
Spawn(t, op, guard) ==
    /\ dcall[t].pc = "idle"
    /\ dcall' = [dcall EXCEPT ![t] = [pc |-> "queued", op |-> op, guard |-> guard,
                                      awaited |-> TRUE]]
    /\ dLast' = NoDLast
    /\ UNCHANGED <<connection, in_transaction, connLock, flagLock, dCommitted, dTxn, dPending,
                   dAtBegin, tg, tgWrote, dropped, dBegunBy, backend, migVars, poolVars>>

\* a verb called on the backend itself
DirectCall(t) == \E op \in {"exec"} \cup TxnOps : Spawn(t, op, FALSE)

\* begin_transaction, commit, rollback: in_transaction_arc.blocking_lock()
WorkerLockFlag(t) ==
    /\ dcall[t].pc = "queued"
    /\ dcall[t].op \in TxnOps
    /\ lock_free(flagLock)
    /\ flagLock' = t
    /\ dcall' = [dcall EXCEPT ![t].pc = "flag"]
    /\ dLast' = NoDLast
    /\ UNCHANGED <<connection, in_transaction, connLock, dCommitted, dTxn, dPending,
                   dAtBegin, tg, tgWrote, dropped, dBegunBy, backend, migVars, poolVars>>

\* connection_arc.blocking_lock(): the first lock of execute/query and of
\* connect's worker, the second lock of the transaction verbs
WorkerLockConn(t) ==
    /\ \/ dcall[t].pc = "queued" /\ dcall[t].op \in {"exec", "open"}
       \/ dcall[t].pc = "flag"
    /\ lock_free(connLock)
    /\ connLock' = t
    /\ dcall' = [dcall EXCEPT ![t].pc = "conn"]
    /\ dLast' = NoDLast
    /\ UNCHANGED <<connection, in_transaction, flagLock, dCommitted, dTxn, dPending,
                   dAtBegin, tg, tgWrote, dropped, dBegunBy, backend, migVars, poolVars>>

\* whether the closure gets as far as handing its statement to the engine:
\* the connection is Some and the flag allows the verb
BodyIssues(op) ==
    /\ connection
    /\ op = "begin" => ~in_transaction
    /\ op \in {"commit", "rollback"} => in_transaction

\* the error of a closure that returns before it issues its statement
EarlyError(op) ==
    IF ~connection THEN "ConnectionError" ELSE "TransactionError"

\* (mutant) a begin_transaction that raises the flag before it knows whether
\* BEGIN succeeded, and commit/rollback that lower it likewise
flag_after_eager(op, stmtOk) ==
    CASE op = "begin" -> TRUE
      [] op \in {"commit", "rollback"} -> FALSE
      [] OTHER -> in_transaction

\* "Execute SQL first, only set flag on success": the flag after the closure
flag_after(op, stmtOk) ==
    CASE op = "begin" /\ stmtOk -> TRUE
      [] op \in {"commit", "rollback"} /\ stmtOk -> FALSE
      [] OTHER -> in_transaction

\* the statement each transaction verb issues
sql_of(op) ==
    CASE op = "begin" -> Stmt("BEGIN", 0)
      [] op = "commit" -> Stmt("COMMIT", 0)
      [] op = "rollback" -> Stmt("ROLLBACK", 0)

\* The caller's continuation once its worker has answered `res`:
\* TransactionGuard::begin builds the guard on Ok, TransactionGuard::commit
\* and ::rollback consume the guard whatever the answer.
GuardAfter(t, op, res) ==
    IF dcall[t].guard /\ dcall[t].awaited
    THEN CASE op = "begin" -> (res = "Ok")
           [] op \in {"commit", "rollback"} -> FALSE
           [] OTHER -> tg[t]
    ELSE tg[t]

\* the specifications that follow the closure a guard's teardown schedules
Followed == backend = "guarded"

\* for the properties, where the teardown is followed: the rows written
\* through task t's guard, once its worker has run `stmt`
WroteAfter(t, op, stmt, stmtOk) ==
    IF Followed /\ dcall[t].guard /\ stmtOk
    THEN CASE op = "begin" -> [tgWrote EXCEPT ![t] = {}]
           [] stmt.op = "INSERT" -> [tgWrote EXCEPT ![t] = @ \cup {stmt.key}]
           [] OTHER -> tgWrote
    ELSE tgWrote

\* for the properties, where the teardown is followed: the caller whose
\* BEGIN opened the engine's transaction, 0 once a COMMIT or ROLLBACK ended it
BegunAfter(t, op, stmtOk) ==
    IF Followed /\ stmtOk /\ op \in TxnOps
    THEN (IF op = "begin" THEN t ELSE 0)
    ELSE dBegunBy

\* (mutant) a Drop that schedules its rollback whatever the flags say
drop_schedules_always(committed, rolled_back) == TRUE

\* impl Drop for TransactionGuard: `if !committed && !rolled_back`
drop_schedules(committed, rolled_back) == ~committed /\ ~rolled_back

\* the closure of a teardown, waiting on the blocking pool
AutoCall == [pc |-> "auto", op |-> "rollback", guard |-> FALSE, awaited |-> TRUE]

\* (mutant) a Drop that stores rolled_back and hands nothing to the pool
drop_spawns_nothing(a) == dcall

\* handle.spawn_blocking(move || ...) with db = Arc::clone(&self.db)
drop_spawns(a) == [dcall EXCEPT ![a] = AutoCall]

\* (mutant) commit and rollback that store their flag before they call the
\* backend: the teardown of a guard whose finalize failed schedules nothing
teardown_flag_first(t, op, res) == dcall

\* TransactionGuard::commit and ::rollback store their flag after the `?`, and
\* the guard is dropped when they return: what the teardown leaves in the
\* slot of its closure once the caller has been answered `res`
Teardown(t, op, res) ==
    IF /\ Followed
       /\ dcall[t].guard /\ dcall[t].awaited
       /\ op \in {"commit", "rollback"}
       /\ drop_schedules(op = "commit" /\ res = "Ok", op = "rollback" /\ res = "Ok")
    THEN drop_spawns(AutoOf(t))
    ELSE dcall

\* the call records once the caller of slot t has its answer: `calls` is what
\* the caller's continuation left, `slot` what remains of the call itself
Returns(t, calls, slot) == [calls EXCEPT ![t] = slot]

\* (mutant) a closure that returns with its locks still held
released_never(t, l) == l

\* the locks a closure holds are released when it returns
Released(t, l) == IF l = t THEN 0 ELSE l

\* (mutant) a closure that lets go of its locks between the tests and the
\* statement
held_after_check_dropped(t, l) == Released(t, l)

\* conn_guard and in_tx_guard live to the end of the closure: the locks are
\* still held after the tests
held_after_check(t, l) == l

\* The head of every closure, run with its locks held: `conn_guard.as_ref()
\* .ok_or_else(not connected)?`, then the flag test of the transaction verbs.
\* A closure that fails either test returns at once; otherwise it goes on to
\* its statement.
WorkerCheck(t) ==
    /\ dcall[t].pc = "conn"
    /\ dcall[t].op # "open"
    /\ IF BodyIssues(dcall[t].op)
       THEN /\ dcall' = [dcall EXCEPT ![t].pc = "sql"]
            /\ dLast' = NoDLast
            /\ connLock' = held_after_check(t, connLock)
            /\ flagLock' = held_after_check(t, flagLock)
            /\ tg' = tg
       ELSE /\ dLast' = DSaid(t, dcall[t].op, Stmt("none", 0), EarlyError(dcall[t].op), FALSE)
            /\ tg' = [tg EXCEPT ![t] = GuardAfter(t, dcall[t].op, EarlyError(dcall[t].op))]
            /\ connLock' = Released(t, connLock)
            /\ flagLock' = Released(t, flagLock)
            /\ dcall' = Returns(t, Teardown(t, dcall[t].op, EarlyError(dcall[t].op)), NoDCall)
    /\ UNCHANGED <<connection, in_transaction, dCommitted, dTxn, dPending, dAtBegin,
                   tgWrote, dropped, dBegunBy, backend, migVars, poolVars>>

\* The rest of the closure: conn.execute / prepare+query_map of execute and
\* query (stmt an INSERT or a SELECT), conn.execute("BEGIN" / "COMMIT" /
\* "ROLLBACK") of the transaction verbs followed by the flag update on
\* success.  The closure returns, its locks are released and the join handle
\* wakes the caller if it still waits.
WorkerSql(t) ==
    /\ dcall[t].pc = "sql"
    /\ \E fault \in BOOLEAN,
          stmt \in IF dcall[t].op = "exec"
                   THEN {s \in Statements : s.op \in {"INSERT", "SELECT"}}
                   ELSE {sql_of(dcall[t].op)} :
         LET op == dcall[t].op
             stmtOk == ~fault /\ DAccepted(stmt)
             res == IF stmtOk THEN "Ok" ELSE "SqliteError"
         IN  /\ IF stmtOk THEN DRun(stmt)
                          ELSE UNCHANGED <<dCommitted, dTxn, dPending, dAtBegin>>
             /\ in_transaction' = flag_after(op, stmtOk)
             /\ dLast' = DSaid(t, op, stmt, res, fault)
             /\ tg' = [tg EXCEPT ![t] = GuardAfter(t, op, res)]
             /\ tgWrote' = WroteAfter(t, op, stmt, stmtOk)
             /\ dBegunBy' = BegunAfter(t, op, stmtOk)
             /\ dcall' = Returns(t, Teardown(t, op, res), NoDCall)
    /\ connLock' = Released(t, connLock)
    /\ flagLock' = Released(t, flagLock)
    /\ UNCHANGED <<connection, dropped, backend, migVars, poolVars>>

\* (mutant) a timeout that is armed only until the closure has started
timeout_covers_queue_only(pc) == pc = "queued"

\* the select! spans the whole life of the closure: queued on the blocking
\* pool, waiting for either mutex, running its statement
timeout_covers(pc) == pc \in {"queued", "flag", "conn", "sql"}

\* The sleep(DEFAULT_OPERATION_TIMEOUT) arm of select! wins: the caller gets
\* QueryTimeout (ConnectionTimeout from connect).  task.abort() stops the
\* closure only if it has not started; otherwise it runs on.
Timeout(t) ==
    /\ timeout_covers(dcall[t].pc)
    /\ dcall[t].awaited
    /\ \E cancelled \in {FALSE, dcall[t].pc = "queued"} :
         dcall' = Returns(t, Teardown(t, dcall[t].op, "QueryTimeout"),
                          IF cancelled THEN NoDCall ELSE [dcall[t] EXCEPT !.awaited = FALSE])
    /\ dLast' = [NoDLast EXCEPT !.awaited = TRUE,
                               !.result = IF dcall[t].op = "open" THEN "ConnectionTimeout"
                                          ELSE "QueryTimeout"]
    /\ tg' = [tg EXCEPT ![t] = IF dcall[t].guard /\ dcall[t].op \in {"commit", "rollback"}
                               THEN FALSE ELSE @]
    /\ UNCHANGED <<connection, in_transaction, connLock, flagLock, dCommitted, dTxn, dPending,
                   dAtBegin, tgWrote, dropped, dBegunBy, backend, migVars, poolVars>>

\* connect, first block: lock the connection, drop whatever it held
ConnectClear(t) ==
    /\ dcall[t].pc = "idle"
    /\ lock_free(connLock)
    /\ connection' = FALSE
    /\ SessionClosed
    /\ dcall' = [dcall EXCEPT ![t] = [pc |-> "connect_flag", op |-> "open", guard |-> FALSE,
                                      awaited |-> TRUE]]
    /\ dLast' = NoDLast
    /\ UNCHANGED <<in_transaction, connLock, flagLock, tg, tgWrote, dropped, dBegunBy, backend, migVars, poolVars>>

\* connect, second block: lock the flag, reset it, and queue the worker that
\* opens the new connection
ConnectReset(t) ==
    /\ dcall[t].pc = "connect_flag"
    /\ lock_free(flagLock)
    /\ in_transaction' = FALSE
    /\ dcall' = [dcall EXCEPT ![t].pc = "queued"]
    /\ dLast' = NoDLast
    /\ UNCHANGED <<connection, connLock, flagLock, dCommitted, dTxn, dPending, dAtBegin,
                   tg, tgWrote, dropped, dBegunBy, backend, migVars, poolVars>>

\* connect's worker: Connection::open or the PRAGMA fails; the `?` returns
\* before the worker locks anything
WorkerOpenFails(t) ==
    /\ dcall[t].pc = "queued"
    /\ dcall[t].op = "open"
    /\ dLast' = [NoDLast EXCEPT !.by = t, !.op = "open", !.fault = TRUE,
                               !.awaited = dcall[t].awaited, !.result = "SqliteError"]
    /\ dcall' = [dcall EXCEPT ![t] = NoDCall]
    /\ UNCHANGED <<connection, in_transaction, connLock, flagLock, dCommitted, dTxn, dPending,
                   dAtBegin, tg, tgWrote, dropped, dBegunBy, backend, migVars, poolVars>>

\* connect's worker, with the connection locked: the connection it opened
\* replaces the stored one
WorkerOpen(t) ==
    /\ dcall[t].pc = "conn"
    /\ dcall[t].op = "open"
    /\ connection' = TRUE
    /\ SessionClosed
    /\ dLast' = [NoDLast EXCEPT !.by = t, !.op = "open", !.awaited = dcall[t].awaited,
                               !.result = "Ok"]
    /\ connLock' = Released(t, connLock)
    /\ dcall' = [dcall EXCEPT ![t] = NoDCall]
    /\ UNCHANGED <<in_transaction, flagLock, tg, tgWrote, dropped, dBegunBy, backend, migVars, poolVars>>

\* disconnect, first block: lock the flag and clear it
DisconnectFlag(t) ==
    /\ dcall[t].pc = "idle"
    /\ lock_free(flagLock)
    /\ in_transaction' = FALSE
    /\ dcall' = [dcall EXCEPT ![t] = [pc |-> "disconnect_conn", op |-> "exec", guard |-> FALSE,
                                      awaited |-> TRUE]]
    /\ dLast' = NoDLast
    /\ UNCHANGED <<connection, connLock, flagLock, dCommitted, dTxn, dPending, dAtBegin,
                   tg, tgWrote, dropped, dBegunBy, backend, migVars, poolVars>>

\* disconnect, second block: lock the connection and drop it
DisconnectConn(t) ==
    /\ dcall[t].pc = "disconnect_conn"
    /\ lock_free(connLock)
    /\ connection' = FALSE
    /\ SessionClosed
    /\ dLast' = [NoDLast EXCEPT !.by = t, !.op = "disconnect", !.result = "Ok",
                               !.awaited = TRUE]
    /\ dcall' = [dcall EXCEPT ![t] = NoDCall]
    /\ UNCHANGED <<in_transaction, connLock, flagLock, tg, tgWrote, dropped, dBegunBy, backend, migVars, poolVars>>

\* SqliteDatabase::in_transaction: in_transaction.try_lock().map(|g| *g)
\* .unwrap_or(false)
direct_in_transaction ==
    IF lock_free(flagLock) /\ in_transaction THEN "true" ELSE "false"

\* a holder of the handle asks in_transaction(); the call does not wait
DirectInTransaction(t) ==
    /\ ~dcall[t].awaited
    /\ dLast' = [NoDLast EXCEPT !.by = t, !.op = "in_transaction", !.awaited = TRUE,
                               !.result = direct_in_transaction]
    /\ UNCHANGED <<connection, in_transaction, connLock, flagLock, dCommitted, dTxn, dPending,
                   dAtBegin, dcall, tg, tgWrote, dropped, dBegunBy, backend, migVars, poolVars>>

\* SqliteDatabase::is_connected: connection.try_lock().map(|conn|
\* conn.is_some()).unwrap_or(false)
direct_is_connected ==
    IF lock_free(connLock) /\ connection THEN "true" ELSE "false"

\* a holder of the handle asks is_connected(); the call does not wait
DirectIsConnected(t) ==
    /\ ~dcall[t].awaited
    /\ dLast' = [NoDLast EXCEPT !.by = t, !.op = "is_connected", !.awaited = TRUE,
                               !.result = direct_is_connected]
    /\ UNCHANGED <<connection, in_transaction, connLock, flagLock, dCommitted, dTxn, dPending,
                   dAtBegin, dcall, tg, tgWrote, dropped, dBegunBy, backend, migVars, poolVars>>

\* (mutant) a teardown that does not look at the locks
teardown_attempts_unlocked(flag_lock_free, conn_lock_free) == in_transaction /\ connection

\* impl Drop for SqliteDatabase: the nested `if let Ok(..) = ...try_lock()`,
\* `if *in_trans` and `if let Some(conn)` that lead to conn.execute("ROLLBACK")
teardown_attempts(flag_lock_free, conn_lock_free) ==
    flag_lock_free /\ in_transaction /\ conn_lock_free /\ connection

\* The SqliteDatabase is dropped: no call borrows it and no guard shares it
\* any more; closures of calls that timed out may still run and hold the
\* locks.  The result of the ROLLBACK goes to `let _`.  The connection is
\* closed with the handle unless such a closure still holds a clone of its Arc.
DropHandle ==
    /\ ~dropped
    /\ \A t \in DirectTasks : ~dcall[t].awaited /\ ~tg[t]
    /\ dropped' = TRUE
    /\ \E fault \in BOOLEAN :
         LET attempts == teardown_attempts(lock_free(flagLock), lock_free(connLock))
             stmt == Stmt("ROLLBACK", 0)
             stmtOk == attempts /\ ~fault /\ DAccepted(stmt)
         IN  /\ IF \A t \in DirectSlots : dcall[t].pc = "idle"
                THEN connection' = FALSE /\ SessionClosed
                ELSE /\ connection' = connection
                     /\ IF stmtOk THEN DRun(stmt)
                                  ELSE UNCHANGED <<dCommitted, dTxn, dPending, dAtBegin>>
             /\ dLast' = [NoDLast EXCEPT !.op = "drop_db",
                                        !.stmt = IF attempts THEN "ROLLBACK" ELSE "none",
                                        !.result = IF ~attempts THEN "none"
                                                   ELSE IF stmtOk THEN "Ok" ELSE "SqliteError",
                                        !.fault = attempts /\ fault,
                                        !.undone = IF stmtOk THEN dPending ELSE {}]
    /\ UNCHANGED <<in_transaction, connLock, flagLock, dcall, tg, tgWrote, dBegunBy, backend,
                   migVars, poolVars>>

(***************************************************************************)
(* TransactionGuard<SqliteDatabase>, src/src/core/transaction.rs.           *)
(***************************************************************************)
\* TransactionGuard::begin: db.begin_transaction().await?
TgBegin(t) ==
    /\ ~tg[t]
    /\ dcall[AutoOf(t)].pc = "idle"
    /\ Spawn(t, "begin", TRUE)

\* TransactionGuard::execute / execute_with_params / query / query_with_params:
\* both flags are false on a live guard, so the call is delegated
TgExecute(t) ==
    /\ tg[t]
    /\ Spawn(t, "exec", TRUE)

\* TransactionGuard::commit and ::rollback: self.db.commit() / rollback()
TgFinalize(t) ==
    /\ tg[t]
    /\ \E op \in {"commit", "rollback"} : Spawn(t, op, TRUE)

\* impl Drop for TransactionGuard, on a guard that was neither committed nor
\* rolled back, inside a runtime (Handle::try_current() is Ok): rolled_back is
\* stored and the closure that will call db.rollback() is handed to
\* spawn_blocking.  The task may have left a timed-out statement behind.
TgDrop(t) ==
    /\ tg[t]
    /\ ~dcall[t].awaited
    /\ drop_schedules(FALSE, FALSE)
    /\ tg' = [tg EXCEPT ![t] = FALSE]
    /\ dcall' = drop_spawns(AutoOf(t))
    /\ dLast' = [NoDLast EXCEPT !.by = t, !.op = "drop", !.awaited = TRUE]
    /\ UNCHANGED <<connection, in_transaction, connLock, flagLock, dCommitted, dTxn, dPending,
                   dAtBegin, tgWrote, dropped, dBegunBy, backend, migVars, poolVars>>

\* the closure starts: Runtime::new() succeeds and rt.block_on(db.rollback())
\* enters the backend's rollback like any other caller
AutoRollback(a) ==
    /\ dcall[a].pc = "auto"
    /\ dcall' = [dcall EXCEPT ![a].pc = "queued"]
    /\ dLast' = NoDLast
    /\ UNCHANGED <<connection, in_transaction, connLock, flagLock, dCommitted, dTxn, dPending,
                   dAtBegin, tg, tgWrote, dropped, dBegunBy, backend, migVars, poolVars>>

\* Runtime::new() fails: the closure prints its [CRITICAL] line and ends
\* without having called rollback
AutoNoRuntime(a) ==
    /\ dcall[a].pc = "auto"
    /\ dcall' = [dcall EXCEPT ![a] = NoDCall]
    /\ dLast' = [NoDLast EXCEPT !.by = a, !.op = "rollback", !.fault = TRUE,
                               !.awaited = TRUE, !.result = "NoRuntime"]
    /\ UNCHANGED <<connection, in_transaction, connLock, flagLock, dCommitted, dTxn, dPending,
                   dAtBegin, tg, tgWrote, dropped, dBegunBy, backend, migVars, poolVars>>

NextDirect ==
    \E t \in DirectTasks :
        \/ DirectCall(t)
        \/ WorkerLockFlag(t)
        \/ WorkerLockConn(t)
        \/ WorkerCheck(t)
        \/ WorkerSql(t)
        \/ Timeout(t)
        \/ ConnectClear(t)
        \/ ConnectReset(t)
        \/ WorkerOpenFails(t)
        \/ WorkerOpen(t)
        \/ DisconnectFlag(t)
        \/ DisconnectConn(t)
        \/ TgBegin(t)
        \/ TgExecute(t)
        \/ TgFinalize(t)

(***************************************************************************)
(* PostgresDatabase, src/src/backends/postgres.rs.  The verbs run on the    *)
(* caller's task: they lock the flag (the transaction verbs) and then the   *)
(* client with tokio's async mutexes, keep both guards across the await of  *)
(* the statement, and race only the statement against                      *)
(* DEFAULT_OPERATION_TIMEOUT.  `connection` is TRUE when `client` is Some.  *)
(***************************************************************************)
\* PostgreSQL answers BEGIN inside a transaction and COMMIT or ROLLBACK
\* outside one with a warning, not with an error
PgAccepts(stmt) ==
    CASE stmt.op = "INSERT" -> stmt.key \notin DVisible
      [] OTHER -> TRUE

\* the flag test the transaction verbs make before they touch the client
pg_flag_allows(op) ==
    CASE op = "begin" -> ~in_transaction
      [] op \in {"commit", "rollback"} -> in_transaction

\* begin_transaction / commit / rollback: self.in_transaction.lock().await and
\* the flag test, which returns TransactionError at once
PgEnterTxn(t) ==
    /\ dcall[t].pc = "idle"
    /\ lock_free(flagLock)
    /\ \E op \in TxnOps :
         IF pg_flag_allows(op)
         THEN /\ flagLock' = t
              /\ dcall' = [dcall EXCEPT ![t] = [pc |-> "pg_flag", op |-> op, guard |-> FALSE,
                                                awaited |-> TRUE]]
              /\ dLast' = NoDLast
         ELSE /\ flagLock' = flagLock
              /\ dcall' = dcall
              /\ dLast' = [DSaid(t, op, Stmt("none", 0), "TransactionError", FALSE)
                             EXCEPT !.awaited = TRUE]
    /\ UNCHANGED <<connection, in_transaction, connLock, dCommitted, dTxn, dPending, dAtBegin,
                   tg, tgWrote, dropped, dBegunBy, backend, migVars, poolVars>>

\* self.client.lock().await and `.as_ref().ok_or_else(not connected)?`: the
\* first lock of execute and query, the second of the transaction verbs
PgLockClient(t) ==
    /\ dcall[t].pc \in {"idle", "pg_flag"}
    /\ lock_free(connLock)
    /\ LET op == IF dcall[t].pc = "idle" THEN "exec" ELSE dcall[t].op
       IN  IF connection
           THEN /\ connLock' = t
                /\ flagLock' = flagLock
                /\ dcall' = [dcall EXCEPT ![t] = [pc |-> "pg_client", op |-> op,
                                                  guard |-> FALSE, awaited |-> TRUE]]
                /\ dLast' = NoDLast
           ELSE /\ connLock' = connLock
                /\ flagLock' = Released(t, flagLock)
                /\ dcall' = [dcall EXCEPT ![t] = NoDCall]
                /\ dLast' = [DSaid(t, op, Stmt("none", 0), "ConnectionError", FALSE)
                               EXCEPT !.awaited = TRUE]
    /\ UNCHANGED <<connection, in_transaction, dCommitted, dTxn, dPending, dAtBegin,
                   tg, tgWrote, dropped, dBegunBy, backend, migVars, poolVars>>

\* tokio::time::timeout(DEFAULT_OPERATION_TIMEOUT, client.execute(..)) and the
\* flag update that follows a success; both guards are dropped at the return
PgSql(t) ==
    /\ dcall[t].pc = "pg_client"
    /\ \E outcome \in {"ok", "fault", "timeout_done", "timeout_lost"},
          stmt \in IF dcall[t].op = "exec"
                   THEN {s \in Statements : s.op \in {"INSERT", "SELECT"}}
                   ELSE {sql_of(dcall[t].op)} :
         LET op == dcall[t].op
             res == CASE outcome \in {"timeout_done", "timeout_lost"} -> "QueryTimeout"
                      [] outcome = "ok" /\ PgAccepts(stmt) -> "Ok"
                      [] OTHER -> IF op = "exec" THEN "QueryError" ELSE "TransactionError"
         IN  /\ IF Reaches(outcome) /\ PgAccepts(stmt)
                THEN DRun(stmt)
                ELSE UNCHANGED <<dCommitted, dTxn, dPending, dAtBegin>>
             /\ in_transaction' = flag_after(op, res = "Ok")
             /\ dLast' = DSaid(t, op, stmt, res, outcome = "fault")
    /\ connLock' = Released(t, connLock)
    /\ flagLock' = Released(t, flagLock)
    /\ dcall' = [dcall EXCEPT ![t] = NoDCall]
    /\ UNCHANGED <<connection, tg, tgWrote, dropped, dBegunBy, backend, migVars, poolVars>>

\* connect, second block: lock the flag and reset it; tokio_postgres::connect
\* comes next, inside the timeout
PgConnectReset(t) ==
    /\ dcall[t].pc = "connect_flag"
    /\ lock_free(flagLock)
    /\ in_transaction' = FALSE
    /\ dcall' = [dcall EXCEPT ![t].pc = "pg_open"]
    /\ dLast' = NoDLast
    /\ UNCHANGED <<connection, connLock, flagLock, dCommitted, dTxn, dPending, dAtBegin,
                   tg, tgWrote, dropped, dBegunBy, backend, migVars, poolVars>>

\* tokio_postgres::connect fails, or the timeout elapses first
PgConnectFails(t) ==
    /\ dcall[t].pc = "pg_open"
    /\ \E res \in {"ConnectionError", "ConnectionTimeout"} :
         dLast' = [NoDLast EXCEPT !.by = t, !.op = "open", !.fault = TRUE, !.awaited = TRUE,
                                  !.result = res]
    /\ dcall' = [dcall EXCEPT ![t] = NoDCall]
    /\ UNCHANGED <<connection, in_transaction, connLock, flagLock, dCommitted, dTxn, dPending,
                   dAtBegin, tg, tgWrote, dropped, dBegunBy, backend, migVars, poolVars>>

\* the new client is stored: client_arc.lock().await, *client_guard = Some(client)
PgConnectOpen(t) ==
    /\ dcall[t].pc = "pg_open"
    /\ lock_free(connLock)
    /\ connection' = TRUE
    /\ SessionClosed
    /\ dLast' = [NoDLast EXCEPT !.by = t, !.op = "open", !.awaited = TRUE, !.result = "Ok"]
    /\ dcall' = [dcall EXCEPT ![t] = NoDCall]
    /\ UNCHANGED <<in_transaction, connLock, flagLock, tg, tgWrote, dropped, dBegunBy, backend, migVars, poolVars>>

\* connect's first block and both blocks of disconnect read as in sqlite.rs
NextPostgres ==
    \E t \in DirectTasks :
        \/ PgEnterTxn(t)
        \/ PgLockClient(t)
        \/ PgSql(t)
        \/ ConnectClear(t)
        \/ PgConnectReset(t)
        \/ PgConnectFails(t)
        \/ PgConnectOpen(t)
        \/ DisconnectFlag(t)
        \/ DisconnectConn(t)

Init == /\ backend \in {"sqlite", "pooled"}
        /\ InitPool
        /\ InitDirect
        /\ InitManager

InitPooled == Init /\ backend = "pooled"

InitSqlite == Init /\ backend = "sqlite"

Next == \/ backend = "pooled" /\ NextPool
        \/ backend = "sqlite" /\ NextDirect

\* a program built on either backend
Spec == Init /\ [][Next]_vars

\* a program built on PooledSqliteDatabase
SpecPool == InitPooled /\ [][NextPool]_vars

\* a program built on SqliteDatabase
SpecDirect == InitSqlite /\ [][NextDirect]_vars

(***************************************************************************)
(* Database::transaction(f) on SqliteDatabase, src/src/core/database.rs:   *)
(* the default method of the trait, built from the backend's own verbs.    *)
(* tg[t] says that the invocation of task t is past its begin_transaction  *)
(* and has not yet called commit or rollback.                              *)
(***************************************************************************)
\* self.begin_transaction().await?
TransactionBegin(t) ==
    /\ ~tg[t]
    /\ Spawn(t, "begin", TRUE)

\* f(self).await: the closure calls execute or query on the backend
TransactionBody(t) ==
    /\ tg[t]
    /\ Spawn(t, "exec", TRUE)

\* the closure has returned: Ok(result) => self.commit().await?,
\* Err(e) => let _ = self.rollback().await
TransactionEnd(t) ==
    /\ tg[t]
    /\ \E closure \in {"Ok", "Err"} :
         Spawn(t, IF closure = "Ok" THEN "commit" ELSE "rollback", TRUE)

\* the task that calls transaction(f); nobody else uses the backend
TransactionCallers == {1}

\* SqliteDatabase::new and connect have run
InitTransaction ==
    /\ backend = "transaction"
    /\ InitPool
    /\ InitManager
    /\ connection = TRUE
    /\ in_transaction = FALSE
    /\ connLock = 0
    /\ flagLock = 0
    /\ dCommitted = {}
    /\ dTxn = FALSE
    /\ dPending = {}
    /\ dAtBegin = {}
    /\ dcall = [t \in DirectSlots |-> NoDCall]
    /\ tg = [t \in DirectSlots |-> FALSE]
    /\ tgWrote = [t \in DirectTasks |-> {}]
    /\ dLast = NoDLast
    /\ dropped = FALSE
    /\ dBegunBy = 0

NextTransaction ==
    \E t \in TransactionCallers :
        \/ TransactionBegin(t)
        \/ TransactionBody(t)
        \/ TransactionEnd(t)
        \/ WorkerLockFlag(t)
        \/ WorkerLockConn(t)
        \/ WorkerCheck(t)
        \/ WorkerSql(t)
        \/ Timeout(t)

\* a program whose one task calls db.transaction(f) again and again
SpecTransaction == InitTransaction /\ [][NextTransaction]_vars

\* PostgresDatabase::new
InitPostgres ==
    /\ backend = "postgres"
    /\ InitPool
    /\ InitDirect
    /\ InitManager

\* a program built on PostgresDatabase
SpecPostgres == InitPostgres /\ [][NextPostgres]_vars

\* The timers of tokio run whatever the engine and the blocking workers do: a
\* sleep or timeout that was armed expires.  Nothing else is assumed to make
\* progress: workers, the engine and callers may stall for ever.
TimersFire ==
    /\ \A t \in DirectTasks : WF_vars(Timeout(t))
    /\ \A t \in PoolTasks : WF_vars(PoolTimeout(t))

\* The programs none of whose statements gets a row into the database: what
\* the callers wait for does not depend on the rows.
InitTimed == Init /\ cfgMaxSize = 1

NoRows ==
    /\ pCommitted' \cup dCommitted' \cup dPending' = {}
    /\ \A c \in Conns : connPending'[c] = {}

NextTimed ==
    \/ \E t \in PoolTasks :
        \/ backend = "pooled" /\ VerbStart(t) /\ NoRows
        \/ backend = "pooled" /\ BeginStart(t) /\ NoRows
        \/ backend = "pooled" /\ Wake(t) /\ NoRows
        \/ backend = "pooled" /\ VerbFinish(t) /\ NoRows
        \/ backend = "pooled" /\ BeginFinish(t) /\ NoRows
        \/ backend = "pooled" /\ GuardExecute(t) /\ NoRows
        \/ backend = "pooled" /\ GuardCommit(t) /\ NoRows
        \/ backend = "pooled" /\ GuardRollback(t) /\ NoRows
        \/ backend = "pooled" /\ GuardDrop(t) /\ NoRows
    \/ \E t \in DirectTasks :
        \/ backend = "sqlite" /\ DirectCall(t) /\ NoRows
        \/ backend = "sqlite" /\ WorkerLockFlag(t) /\ NoRows
        \/ backend = "sqlite" /\ WorkerLockConn(t) /\ NoRows
        \/ backend = "sqlite" /\ WorkerCheck(t) /\ NoRows
        \/ backend = "sqlite" /\ WorkerSql(t) /\ NoRows
        \/ backend = "sqlite" /\ Timeout(t) /\ NoRows
        \/ backend = "sqlite" /\ ConnectClear(t) /\ NoRows
        \/ backend = "sqlite" /\ ConnectReset(t) /\ NoRows
        \/ backend = "sqlite" /\ WorkerOpenFails(t) /\ NoRows
        \/ backend = "sqlite" /\ WorkerOpen(t) /\ NoRows
        \/ backend = "sqlite" /\ DisconnectFlag(t) /\ NoRows
        \/ backend = "sqlite" /\ DisconnectConn(t) /\ NoRows
        \/ backend = "sqlite" /\ TgBegin(t) /\ NoRows
        \/ backend = "sqlite" /\ TgExecute(t) /\ NoRows
        \/ backend = "sqlite" /\ TgFinalize(t) /\ NoRows

\* such a program, built on either backend, on a runtime whose timers fire
SpecTimed == InitTimed /\ [][NextTimed]_vars /\ TimersFire

\* The programs that get no other row than row 1 into the database.
OneRow ==
    /\ pCommitted' \cup dCommitted' \cup dPending' \subseteq {1}
    /\ \A c \in Conns : connPending'[c] \subseteq {1}
    /\ \A t \in PoolTasks : call'[t].stmt.key \in {0, 1}

\* Either backend, with the closures that timed-out pooled calls leave behind
\* followed until they end.
NextLate ==
    \/ \E t \in PoolTasks :
        \/ backend = "pooled" /\ VerbStart(t) /\ OneRow
        \/ backend = "pooled" /\ BeginStart(t) /\ OneRow
        \/ backend = "pooled" /\ Wake(t) /\ OneRow
        \/ backend = "pooled" /\ VerbFinish(t) /\ OneRow
        \/ backend = "pooled" /\ BeginFinish(t) /\ OneRow
        \/ backend = "pooled" /\ GuardExecute(t) /\ OneRow
        \/ backend = "pooled" /\ GuardCommit(t) /\ OneRow
        \/ backend = "pooled" /\ GuardRollback(t) /\ OneRow
        \/ backend = "pooled" /\ GuardDrop(t) /\ OneRow
        \/ backend = "pooled" /\ Abandon(t) /\ OneRow
        \/ backend = "pooled" /\ LateLock(t) /\ OneRow
        \/ backend = "pooled" /\ LateRun(t) /\ OneRow
    \/ \E t \in DirectTasks :
        \/ backend = "sqlite" /\ DirectCall(t) /\ OneRow
        \/ backend = "sqlite" /\ WorkerLockFlag(t) /\ OneRow
        \/ backend = "sqlite" /\ WorkerLockConn(t) /\ OneRow
        \/ backend = "sqlite" /\ WorkerCheck(t) /\ OneRow
        \/ backend = "sqlite" /\ WorkerSql(t) /\ OneRow
        \/ backend = "sqlite" /\ Timeout(t) /\ OneRow
        \/ backend = "sqlite" /\ ConnectClear(t) /\ OneRow
        \/ backend = "sqlite" /\ ConnectReset(t) /\ OneRow
        \/ backend = "sqlite" /\ WorkerOpenFails(t) /\ OneRow
        \/ backend = "sqlite" /\ WorkerOpen(t) /\ OneRow
        \/ backend = "sqlite" /\ DisconnectFlag(t) /\ OneRow
        \/ backend = "sqlite" /\ DisconnectConn(t) /\ OneRow
        \/ backend = "sqlite" /\ TgBegin(t) /\ OneRow
        \/ backend = "sqlite" /\ TgExecute(t) /\ OneRow
        \/ backend = "sqlite" /\ TgFinalize(t) /\ OneRow

SpecLate == InitTimed /\ [][NextLate]_vars

\* PooledSqliteDatabase with callers that work through Database::transaction.
NextScoped ==
    \E t \in PoolTasks :
        \/ ScopedStart(t)
        \/ ScopedFinish(t)

SpecScoped == InitPooled /\ [][NextScoped]_vars

\* SqliteDatabase up to and beyond the point where the program drops it: no
\* call is made through a dropped handle, the closures left behind run on.
NextDropped ==
    \/ DropHandle /\ OneRow
    \/ \E t \in DirectTasks :
        \/ DirectCall(t) /\ ~dropped /\ OneRow
        \/ WorkerLockFlag(t) /\ OneRow
        \/ WorkerLockConn(t) /\ OneRow
        \/ WorkerCheck(t) /\ OneRow
        \/ WorkerSql(t) /\ OneRow
        \/ Timeout(t) /\ OneRow
        \/ ConnectClear(t) /\ ~dropped /\ OneRow
        \/ ConnectReset(t) /\ OneRow
        \/ WorkerOpenFails(t) /\ OneRow
        \/ WorkerOpen(t) /\ OneRow
        \/ DisconnectFlag(t) /\ ~dropped /\ OneRow
        \/ DisconnectConn(t) /\ OneRow

SpecDropped == InitSqlite /\ [][NextDropped]_vars

\* SqliteDatabase with holders that also ask in_transaction().
NextWatched ==
    \E t \in DirectTasks :
        \/ DirectCall(t) /\ OneRow
        \/ WorkerLockFlag(t) /\ OneRow
        \/ WorkerLockConn(t) /\ OneRow
        \/ WorkerCheck(t) /\ OneRow
        \/ WorkerSql(t) /\ OneRow
        \/ Timeout(t) /\ OneRow
        \/ ConnectClear(t) /\ OneRow
        \/ ConnectReset(t) /\ OneRow
        \/ WorkerOpenFails(t) /\ OneRow
        \/ WorkerOpen(t) /\ OneRow
        \/ DisconnectFlag(t) /\ OneRow
        \/ DisconnectConn(t) /\ OneRow
        \/ DirectInTransaction(t) /\ OneRow

SpecWatched == InitSqlite /\ [][NextWatched]_vars

\* SqliteDatabase with holders that ask both synchronous observers
NextObserved ==
    \E t \in DirectTasks :
        \/ DirectCall(t) /\ OneRow
        \/ WorkerLockFlag(t) /\ OneRow
        \/ WorkerLockConn(t) /\ OneRow
        \/ WorkerCheck(t) /\ OneRow
        \/ WorkerSql(t) /\ OneRow
        \/ Timeout(t) /\ OneRow
        \/ ConnectClear(t) /\ OneRow
        \/ ConnectReset(t) /\ OneRow
        \/ WorkerOpenFails(t) /\ OneRow
        \/ WorkerOpen(t) /\ OneRow
        \/ DisconnectFlag(t) /\ OneRow
        \/ DisconnectConn(t) /\ OneRow
        \/ DirectInTransaction(t) /\ OneRow
        \/ DirectIsConnected(t) /\ OneRow

SpecObserved == InitSqlite /\ [][NextObserved]_vars

\* SqliteDatabase used through TransactionGuard and directly, with the closures
\* that the guards' teardown schedules followed until they end.  The first
\* task works through guards, the others call the backend's verbs themselves;
\* the program has connected (SqliteDatabase::new, then WorkerOpen).
GuardUsers == {1}

InitGuard ==
    /\ backend = "guarded"
    /\ InitPool
    /\ InitManager
    /\ connection = TRUE
    /\ in_transaction = FALSE
    /\ connLock = 0
    /\ flagLock = 0
    /\ dCommitted = {}
    /\ dTxn = FALSE
    /\ dPending = {}
    /\ dAtBegin = {}
    /\ dcall = [t \in DirectSlots |-> NoDCall]
    /\ tg = [t \in DirectSlots |-> FALSE]
    /\ tgWrote = [t \in DirectTasks |-> {}]
    /\ dLast = NoDLast
    /\ dropped = FALSE
    /\ dBegunBy = 0

NextGuard ==
    \/ \E t \in DirectTasks \ GuardUsers :
        \/ DirectCall(t) /\ OneRow
    \/ \E t \in GuardUsers :
        \/ TgBegin(t) /\ OneRow
        \/ TgExecute(t) /\ OneRow
        \/ TgFinalize(t) /\ OneRow
        \/ TgDrop(t) /\ OneRow
    \/ \E t \in DirectSlots :
        \/ WorkerLockFlag(t) /\ OneRow
        \/ WorkerLockConn(t) /\ OneRow
        \/ WorkerCheck(t) /\ OneRow
        \/ WorkerSql(t) /\ OneRow
        \/ Timeout(t) /\ OneRow
    \/ \E a \in AutoTasks :
        \/ AutoRollback(a) /\ OneRow
        \/ AutoNoRuntime(a) /\ OneRow

\* The blocking pool gives the closure of a teardown a thread, a closure that
\* holds a mutex runs on until it returns, and tokio's mutexes are fair: the
\* rollback that waits for one gets it.  Callers and timers are assumed
\* nothing of.
WorkersRun ==
    /\ \A t \in DirectTasks : /\ SF_vars(WorkerLockConn(t) /\ OneRow)
                              /\ WF_vars(WorkerCheck(t) /\ OneRow)
                              /\ WF_vars(WorkerSql(t) /\ OneRow)
    /\ \A t \in GuardUsers : /\ WF_vars((AutoRollback(AutoOf(t)) \/ AutoNoRuntime(AutoOf(t)))
                                      /\ OneRow)
                             /\ SF_vars(WorkerLockFlag(AutoOf(t)) /\ OneRow)
                             /\ SF_vars(WorkerLockConn(AutoOf(t)) /\ OneRow)
                             /\ WF_vars(WorkerCheck(AutoOf(t)) /\ OneRow)
                             /\ WF_vars(WorkerSql(AutoOf(t)) /\ OneRow)

SpecGuard == InitGuard /\ [][NextGuard]_vars /\ WorkersRun

\* The pooled backend with callers that also ask in_transaction() and call
\* connect() and disconnect().
NextAsked ==
    \E t \in PoolTasks :
        \/ VerbStart(t) /\ OneRow
        \/ BeginStart(t) /\ OneRow
        \/ Wake(t) /\ OneRow
        \/ VerbFinish(t) /\ OneRow
        \/ BeginFinish(t) /\ OneRow
        \/ GuardExecute(t) /\ OneRow
        \/ GuardCommit(t) /\ OneRow
        \/ GuardRollback(t) /\ OneRow
        \/ GuardDrop(t) /\ OneRow
        \/ InTransaction(t) /\ OneRow
        \/ PoolConnect(t) /\ OneRow
        \/ PoolConnectDone(t) /\ OneRow
        \/ PoolDisconnect(t) /\ OneRow

SpecAsked == InitPooled /\ [][NextAsked]_vars

(***************************************************************************)
(* MigrationManager, src/src/core/migration.rs, over a SQLite database     *)
(* that nothing else uses.  A call of the manager is one step: the          *)
(* statements it sends are worked out as the code's loops work them out    *)
(* and run one after another until one fails.                              *)
(***************************************************************************)
\* the highest version number the program registers and asks for
MaxVersion == 2
\* Migration.version (i64): nothing in Migration::new or add_migration keeps a
\* version away from 0
Versions == 0..MaxVersion
\* the largest `steps` passed to rollback
MaxSteps == 3
\* which call to the database fails: 0 none, 1 the reading of the applied
\* versions, k + 1 the k-th statement of the call
MaxFault == 3

\* Option<i64>
NoVersion == [some |-> FALSE, value |-> 0]
SomeVersion(v) == [some |-> TRUE, value |-> v]
unwrap_or(o, d) == IF o.some THEN o.value ELSE d

\* the versions held in a Vec<i64>, or in the rows of the table
Recorded(table) == {table[i] : i \in 1..Len(table)}
Reversed(seq) == [i \in 1..Len(seq) |-> seq[Len(seq) + 1 - i]]

\* iteration of a BTreeMap's keys, and ORDER BY version: ascending
RECURSIVE Ascending(_)
Ascending(S) ==
    IF S = {} THEN <<>>
    ELSE LET m == CHOOSE x \in S : \A y \in S : x <= y
         IN  <<m>> \o Ascending(S \ {m})

\* row_to_database_row of the SQLite backends: an INTEGER column is read as
\* DatabaseValue::Long
row_to_value(v) == [kind |-> "Long", value |-> v]

\* get_applied_versions: SELECT version ... ORDER BY version, keeping the rows
\* whose version is a DatabaseValue::Long
get_applied_versions(table) ==
    LET rows == [i \in 1..Len(table) |-> row_to_value(Ascending(Recorded(table))[i])]
        longs == SelectSeq(rows, LAMBDA r : r.kind = "Long")
    IN  [i \in 1..Len(longs) |-> longs[i].value]

\* current_version: applied.last().copied()
current_version(table) ==
    LET applied == get_applied_versions(table)
    IN  IF applied = <<>> THEN NoVersion ELSE SomeVersion(applied[Len(applied)])

\* a statement the manager sends: up_sql ("up") and the INSERT of the record
\* ("record"), down_sql ("down") and the DELETE of the record ("unrecord");
\* "missing" stands for self.migrations.get(version) finding nothing
Statement(kind, v) == [kind |-> kind, version |-> v]

\* the loop of migrate over the registered migrations
RECURSIVE migrate_loop(_, _)
migrate_loop(keys, applied) ==
    IF keys = <<>> THEN <<>>
    ELSE IF Head(keys) \in Recorded(applied) THEN migrate_loop(Tail(keys), applied)
    ELSE <<Statement("up", Head(keys)), Statement("record", Head(keys))>>
             \o migrate_loop(Tail(keys), applied)

\* the loop of migrate_up_to
RECURSIVE migrate_up_to_loop(_, _, _)
migrate_up_to_loop(keys, applied, target_version) ==
    IF keys = <<>> THEN <<>>
    ELSE IF Head(keys) > target_version THEN <<>>
    ELSE IF Head(keys) \in Recorded(applied)
         THEN migrate_up_to_loop(Tail(keys), applied, target_version)
    ELSE <<Statement("up", Head(keys)), Statement("record", Head(keys))>>
             \o migrate_up_to_loop(Tail(keys), applied, target_version)

\* one round of the loops of rollback_to and rollback
revert(registered, version) ==
    IF version \notin registered THEN <<Statement("missing", version)>>
    ELSE <<Statement("down", version), Statement("unrecord", version)>>

\* the loop of rollback_to over applied.iter().rev()
RECURSIVE rollback_to_loop(_, _, _)
rollback_to_loop(registered, newest_first, target_version) ==
    IF newest_first = <<>> THEN <<>>
    ELSE IF Head(newest_first) <= target_version THEN <<>>
    ELSE LET round == revert(registered, Head(newest_first))
         IN  IF round[1].kind = "missing" THEN round
             ELSE round \o rollback_to_loop(registered, Tail(newest_first), target_version)

\* the loop of rollback over applied.iter().rev().take(rollback_count)
RECURSIVE rollback_loop(_, _)
rollback_loop(registered, taken) ==
    IF taken = <<>> THEN <<>>
    ELSE LET round == revert(registered, Head(taken))
         IN  IF round[1].kind = "missing" THEN round
             ELSE round \o rollback_loop(registered, Tail(taken))

\* MigrationManager::migrate
migrate_skips_nothing(registered, table) == migrate_loop(Ascending(registered), <<>>)

migrate(registered, table) ==
    migrate_loop(Ascending(registered), get_applied_versions(table))

\* MigrationManager::migrate_to
migrate_to(registered, table, target_version) ==
    LET current == unwrap_or(current_version(table), 0)
    IN  IF target_version > current
        THEN migrate_up_to_loop(Ascending(registered), get_applied_versions(table),
                                target_version)
        ELSE IF target_version < current
        THEN rollback_to_loop(registered, Reversed(get_applied_versions(table)),
                              target_version)
        ELSE <<>>

\* MigrationManager::rollback
rollback_takes_one(registered, table, steps) ==
    LET applied == get_applied_versions(table)
    IN  IF steps = 0 \/ applied = <<>> THEN <<>>
        ELSE rollback_loop(registered, SubSeq(Reversed(applied), 1, 1))

rollback(registered, table, steps) ==
    LET applied == get_applied_versions(table)
    IN  IF steps = 0 \/ applied = <<>> THEN <<>>
        ELSE LET rollback_count == IF steps < Len(applied) THEN steps ELSE Len(applied)
             IN  rollback_loop(registered, SubSeq(Reversed(applied), 1, rollback_count))

\* MigrationManager::reset
reset(registered, table) ==
    rollback(registered, table, Len(get_applied_versions(table)))

\* the statements of `plan` that run before the first one that fails
Ran(plan, fault) ==
    LET bad == {i \in 1..Len(plan) : plan[i].kind = "missing" \/ i + 1 = fault}
    IN  IF fault = 1 THEN <<>>
        ELSE IF bad = {} THEN plan
        ELSE SubSeq(plan, 1, (CHOOSE i \in bad : \A j \in bad : i <= j) - 1)

\* the `?` of the call that failed returns its error
Outcome(plan, fault) ==
    IF fault = 1 \/ Len(Ran(plan, fault)) < Len(plan) THEN "Err" ELSE "Ok"

\* migrated.push(*version) / rolled_back.push(*version): the Vec returned
Pushed(ran) ==
    LET done == SelectSeq(ran, LAMBDA s : s.kind \in {"record", "unrecord"})
    IN  [i \in 1..Len(done) |-> done[i].version]

\* the schema_migrations table after the statements ran
RECURSIVE TableAfter(_, _)
TableAfter(table, ran) ==
    IF ran = <<>> THEN table
    ELSE TableAfter(CASE Head(ran).kind = "record" -> Append(table, Head(ran).version)
                      [] Head(ran).kind = "unrecord" ->
                             SelectSeq(table, LAMBDA v : v # Head(ran).version)
                      [] OTHER -> table,
                    Tail(ran))

\* the rest of the database after the statements ran
RECURSIVE SchemaAfter(_, _)
SchemaAfter(effects, ran) ==
    IF ran = <<>> THEN effects
    ELSE SchemaAfter(CASE Head(ran).kind = "up" -> effects \cup {Head(ran).version}
                       [] Head(ran).kind = "down" -> effects \ {Head(ran).version}
                       [] OTHER -> effects,
                     Tail(ran))

\* a call of the manager returns
ManagerCall(op, arg, plan, fault) ==
    LET ran == Ran(plan, fault)
        result == Outcome(plan, fault)
    IN  /\ records' = TableAfter(records, ran)
        /\ schema' = SchemaAfter(schema, ran)
        /\ mLast' = [op |-> op, arg |-> arg, result |-> result,
                     versions |-> IF result = "Ok" THEN Pushed(ran) ELSE <<>>,
                     ran |-> ran, applied0 |-> records]
        /\ UNCHANGED <<migrations, backend, poolVars, directVars>>

\* MigrationManager::new over the database as it is: the program starts again
NewManager ==
    /\ migrations' = {}
    /\ mLast' = NoMLast
    /\ UNCHANGED <<records, schema, backend, poolVars, directVars>>

\* MigrationManager::add_migration
AddMigration(v) ==
    /\ migrations' = migrations \cup {v}
    /\ mLast' = NoMLast
    /\ UNCHANGED <<records, schema, backend, poolVars, directVars>>

Migrate(fault) ==
    /\ fault \in 0..MaxFault
    /\ ManagerCall("migrate", 0, migrate(migrations, records), fault)

MigrateTo(t, fault) ==
    /\ fault \in 0..MaxFault
    /\ ManagerCall("migrate_to", t, migrate_to(migrations, records, t), fault)

Rollback(steps, fault) ==
    /\ fault \in 0..MaxFault
    /\ ManagerCall("rollback", steps, rollback(migrations, records, steps), fault)

Reset(fault) ==
    /\ fault \in 0..MaxFault
    /\ ManagerCall("reset", 0, reset(migrations, records), fault)

InitMigrate ==
    /\ backend = "migrating"
    /\ InitPool
    /\ InitDirect
    /\ InitManager

NextMigrate ==
    \/ NewManager
    \/ \E v \in Versions : AddMigration(v)
    \/ \E fault \in 0..MaxFault : Migrate(fault)
    \/ \E t \in Versions, fault \in 0..MaxFault : MigrateTo(t, fault)
    \/ \E steps \in 0..MaxSteps, fault \in 0..MaxFault : Rollback(steps, fault)
    \/ \E fault \in 0..MaxFault : Reset(fault)

\* a program that manages the schema of a SQLite database
SpecMigrate == InitMigrate /\ [][NextMigrate]_vars

TypeOKPool ==
    /\ pool.size \in 1..PoolCapacity
    /\ Idle \subseteq 1..pool.size
    /\ pLast.result \in Results

(***************************************************************************)
(* Properties of the pooled backend.                                       *)
(***************************************************************************)
Open(t) == tx[t].live /\ tx[t].connection # NoConn

\* C1 (transaction affinity).  Whatever a guard executed last ran on the
\* connection its begin borrowed, the guard still pins that connection, and
\* while a guard is Open its connection is neither idle in the pool, nor
\* borrowed by an in-flight call, nor pinned by another guard.
C1_TransactionAffinity ==
    /\ pLast.op = "tx_execute" =>
          /\ tx[pLast.by].live
          /\ pLast.conn = tx[pLast.by].began
    /\ \A t \in PoolTasks : Open(t) =>
          /\ tx[t].connection = tx[t].began
          /\ tx[t].connection \notin Idle
          /\ tx[t].connection \notin InFlight
          /\ \A u \in PoolTasks \ {t} : Open(u) => tx[u].connection # tx[t].connection

\* C1 witness: a guard has inserted a row through its pinned connection while
\* another caller's call is in flight on another connection and the guard's
\* own task is not the only user of the pool.
C1_Witness ==
    \E t \in PoolTasks, u \in PoolTasks :
        /\ t # u
        /\ Open(t) /\ tx[t].wrote # {}
        /\ pLast.op = "tx_execute" /\ pLast.by = t /\ pLast.result = "Ok"
        /\ call[u].pc = "run"

\* number of connections in use: in-flight calls plus Open guards
active ==
    Cardinality({t \in PoolTasks : call[t].pc = "run"})
    + Cardinality({t \in PoolTasks : Open(t)})

\* C2 (pool conservation), as claimed: idle + active == total, and the total
\* never exceeds the max_size given in PoolConfig.
C2_PoolConservation ==
    /\ stats.available + active = stats.size
    /\ stats.size <= cfgMaxSize

\* C10 (no leaked borrow on failed construction).  A PooledTransaction::begin
\* that borrowed a connection and then fails returns an error, creates no
\* guard, and puts the connection back: the pool has one more idle
\* connection, the same size, and the connection is the newest idle one.
C10_NoLeakOnFailedBegin ==
    [][\A t \in PoolTasks :
          (/\ call[t].pc = "run" /\ call[t].kind = "begin"
           /\ call'[t].pc = "idle"
           /\ pLast'.result # "Ok")
          => /\ pLast'.result \in {"QueryTimeout", "Other", "SqliteError"}
             /\ tx'[t] = tx[t] /\ ~tx'[t].live
             /\ pool'.size = pool.size
             /\ pool'.available = Append(pool.available, call[t].conn)
             /\ stats'.available = stats.available + 1
      ]_vars

\* C10 witness: begin's BEGIN timed out and the connection it had borrowed is
\* idle again, with a SQL transaction possibly left open on it.
C10_Witness ==
    /\ pLast.op = "begin"
    /\ pLast.result = "QueryTimeout"
    /\ pLast.conn \in Idle
    /\ ~tx[pLast.by].live

\* task t's PooledTransaction::commit or ::rollback returns in this step
Finalized(t) ==
    /\ tx[t].live
    /\ ~tx'[t].live
    /\ pLast'.by = t
    /\ pLast'.op \in {"COMMIT", "ROLLBACK"}

\* C11: PooledTransaction::commit and ::rollback consume the guard and return
\* its pinned connection to the pool whatever the statement's outcome (Ok,
\* engine error, interact error, timeout): the pool keeps its size and gains
\* that connection as an idle one.  The terminal flag the guard holds at
\* teardown is set only when the call returned Ok, and then the engine has
\* ended the transaction on that connection.
C11_FinalizeReleases ==
    [][\A t \in PoolTasks :
          Finalized(t) =>
              /\ tx'[t] = NoTx
              /\ pool'.size = pool.size
              /\ pool'.available = Append(pool.available, tx[t].connection)
              /\ pLast'.conn = tx[t].connection
              /\ pLast'.committed => /\ pLast'.op = "COMMIT"
                                     /\ pLast'.result = "Ok"
                                     /\ ~connTxn'[tx[t].connection]
              /\ pLast'.rolled_back => /\ pLast'.op = "ROLLBACK"
                                       /\ pLast'.result = "Ok"
                                       /\ ~connTxn'[tx[t].connection]
              /\ pLast'.result # "Ok" => ~pLast'.committed /\ ~pLast'.rolled_back]_vars

\* a commit has just timed out: no terminal flag, and the connection is idle
\* in the pool again
C11_Witness ==
    /\ pLast.op = "COMMIT"
    /\ pLast.result = "QueryTimeout"
    /\ ~pLast.committed
    /\ pLast.conn \in Idle
    /\ ~tx[pLast.by].live

\* a query of a pooled call or of a guard returns rows read on connection c
\* in this step
Reads(c) ==
    /\ pLast'.conn = c
    /\ pLast'.op \in {"verb", "tx_execute"}
    /\ pLast'.stmt = "SELECT"
    /\ pLast'.result = "Ok"

\* C12: the rows written through a PooledTransaction that was dropped without
\* commit are never committed, and no query that a later operation runs, on
\* whichever connection the pool gives it, returns them.
C12_DropRollsBack ==
    [][/\ abandoned \cap pCommitted' = {}
       /\ \A c \in Conns : Reads(c) => abandoned \cap (pCommitted \cup connPending[c]) = {}]_vars

\* task t's PooledTransaction is dropped in this step without commit or rollback
Dropped(t) ==
    /\ tx[t].live
    /\ ~tx'[t].live
    /\ pLast'.by = t
    /\ pLast'.op = "drop"

\* C13: when a PooledTransaction is torn down the warning is printed exactly
\* when the guard is still Open (neither terminal flag set, connection still
\* held); the teardown hands no statement to the engine; and the teardown at
\* the end of commit or rollback, whatever their result, prints no warning.
C13_DropWarning ==
    [][\A t \in PoolTasks :
          /\ Dropped(t) =>
                /\ pLast'.warned <=> (Open(t) /\ ~tx[t].committed /\ ~tx[t].rolled_back)
                /\ UNCHANGED <<pCommitted, connTxn, connPending>>
          /\ Finalized(t) => ~pLast'.warned]_vars

\* an Open guard that wrote a row has just been dropped: the warning was
\* printed and the transaction is still open on the connection it returned
C13_Witness ==
    /\ pLast.op = "drop"
    /\ pLast.warned
    /\ pLast.connection \in Idle
    /\ connTxn[pLast.connection]
    /\ connPending[pLast.connection] # {}

\* task t's pooled verb returns to its caller in this step
VerbReturned(t) ==
    /\ call[t].pc = "run"
    /\ call[t].kind = "verb"
    /\ call'[t].pc = "idle"

\* connections that are out of the pool, and the calls and guards holding one
Borrowed == pool.size - Len(pool.available)

Holders ==
    Cardinality({t \in PoolTasks : call[t].pc = "run"})
    + Cardinality({t \in PoolTasks : tx[t].live /\ tx[t].connection # NoConn})

\* C14: when a non-transactional pooled call returns, with Ok, with an engine
\* error, with an interact error or with QueryTimeout, the connection it
\* borrowed is appended to the pool's idle queue, the return leaves the
\* pool's connection count as it was, no borrow is left without a holder, and
\* the count is not below what it was when the call began: it is above it
\* exactly as far as acquisitions made meanwhile, the call's own included,
\* found no idle connection and created one.
C14_VerbReleases ==
    [][\A t \in PoolTasks : VerbReturned(t) =>
          /\ pLast'.by = t
          /\ pLast'.result \in {"Ok", "SqliteError", "Other", "QueryTimeout"}
          /\ pool'.available = Append(pool.available, call[t].conn)
          /\ pool'.size = pool.size
          /\ Borrowed' = Holders'
          /\ pool'.size >= call[t].size0
          /\ pool'.size <= PoolCapacity]_vars

\* a pooled verb has just returned QueryTimeout, its connection is idle again
\* and the verb's own acquisition had created that connection
C14_Witness ==
    /\ pLast.op = "verb"
    /\ pLast.result = "QueryTimeout"
    /\ pLast.conn \in Idle
    /\ call[pLast.by].pc = "idle"
    /\ pLast.conn = 2
    /\ Borrowed = Holders

\* C14 as stated: when the call returns the connection is idle and the
\* pool's connection count is what it was before the call.
C14_CountAsBeforeCall ==
    [][\A t \in PoolTasks : VerbReturned(t) /\ pLast'.stmt \in {"INSERT", "SELECT"} =>
          /\ call[t].conn \in Idle'
          /\ pool'.size = call[t].size0]_vars

\* task t's pooled call has its connection and is inside the timeout window
PoolEngaged(t) == call[t].pc = "run"

\* task t's direct call is awaited by its caller inside the select!
DirectEngaged(t) ==
    /\ dcall[t].awaited
    /\ dcall[t].op # "open"
    /\ dcall[t].pc \in {"queued", "flag", "conn", "sql"}

C16_AcquireBounded ==
    \A t \in PoolTasks : (call[t].pc = "wait") ~> (call[t].pc # "wait")

\* the closures that are inside connection c: left behind by a timed-out call
Inside(c) == {t \in PoolTasks : call[t].pc = "late_run" /\ call[t].conn = c}

\* the owners of connection c: the pool's idle queue (0), the tasks whose
\* in-flight call borrowed it, the tasks whose guard pins it
Owners(c) ==
    {i \in 1..Len(pool.available) : pool.available[i] = c}
    \cup {<<"call", t>> : t \in {u \in PoolTasks : call[u].pc = "run" /\ call[u].conn = c}}
    \cup {<<"guard", t>> : t \in {u \in PoolTasks : Open(u) /\ tx[u].connection = c}}

\* C17 (exclusive connection ownership).  Every connection the pool has
\* created has exactly one owner: one place in the idle queue, one in-flight
\* call or one guard.  At most one closure is inside a connection, and while a
\* closure that a timed-out call left behind is inside it, no statement of
\* the connection's owner gets to the engine: the owner's call returns only
\* without having engaged the connection.  On the direct backend a closure
\* that is at its statement holds the connection lock, whether its caller
\* still awaits it or not, so there is at most one.
C17_ExclusiveOwnership ==
    /\ [](/\ \A c \in 1..pool.size : Cardinality(Owners(c)) = 1
          /\ \A c \in Conns : c > pool.size => Owners(c) = {}
          /\ \A c \in Conns : Cardinality(Inside(c)) <= 1
          /\ \A t \in DirectTasks : dcall[t].pc = "sql" => connLock = t)
    /\ [][\A c \in Conns : \A t \in Inside(c) :
             call'[t] = call[t] =>
                 /\ connTxn'[c] = connTxn[c]
                 /\ connPending'[c] = connPending[c]
                 /\ (pLast' # pLast /\ pLast'.conn = c) =>
                        pLast'.result \in {"QueryTimeout", "Other"}]_vars

\* a closure that a timed-out verb left behind is inside a connection that an
\* Open guard of another task pins by now
C17_Witness ==
    \E t \in PoolTasks, u \in PoolTasks :
        /\ t # u
        /\ call[t].pc = "late_run"
        /\ call[t].stmt.op = "INSERT"
        /\ Open(u)
        /\ tx[u].connection = call[t].conn

\* C20: in_transaction() of the pooled backend answers false in every state,
\* also while the caller's PooledTransaction is Open and right after a
\* begin_transaction of the backend succeeded, and the call changes nothing:
\* no connection is borrowed, no pool or engine state moves.
C20_InTransactionFalse ==
    /\ [](pLast.op = "in_transaction" => pLast.result = "false")
    /\ [][(pLast'.op = "in_transaction" /\ pLast' # pLast) =>
             UNCHANGED <<pool, call, tx, pCommitted, connTxn, connPending>>]_vars

\* in_transaction() has just answered a caller whose guard is Open with a row
\* pending, while the other connection was left inside a transaction by the
\* backend's own begin_transaction
C20_Witness ==
    /\ pLast.op = "in_transaction"
    /\ Open(pLast.by)
    /\ connPending[tx[pLast.by].connection] # {}
    /\ \E c \in Idle : connTxn[c]

\* connect() of task t returns in this step; Probed(t) without having waited
ProbeReturned(t) ==
    /\ pLast' # pLast
    /\ pLast'.by = t
    /\ pLast'.op = "connect"

Probed(t) == ProbeReturned(t) /\ call[t].pc = "idle"

DisconnectReturned(t) ==
    /\ pLast' # pLast
    /\ pLast'.by = t
    /\ pLast'.op = "disconnect"

OnConnection == {t \in DirectTasks : dcall[t].pc \in {"conn", "sql"}}

\* task t's closure returns from its statement in this step
SqlReturns(t, op) == dcall[t].pc = "sql" /\ dcall[t].op = op /\ dcall'[t].pc = "idle"

\* one insert: it succeeds unless the row exists or the engine faults, and a
\* successful insert adds its row and keeps every row that was there
C3_InsertStep ==
    \A t \in DirectTasks :
        (SqlReturns(t, "exec") /\ dLast'.stmt = "INSERT") =>
            /\ (dLast'.key \notin DVisible /\ ~dLast'.fault) => dLast'.result = "Ok"
            /\ dLast'.result = "Ok" => /\ dLast'.key \notin DVisible
                                        /\ DVisible' = DVisible \cup {dLast'.key}
            /\ dLast'.result # "Ok" => DVisible' = DVisible

\* C3: on a connected SqliteDatabase at most one closure is on the connection
\* at any instant, however many callers issued execute / execute_with_params
\* concurrently; each insert that meets no engine error succeeds, and each
\* successful insert adds exactly its row without losing another caller's row,
\* so N inserts of N distinct rows leave N rows.
C3_MutualExclusion == [](Cardinality(OnConnection) <= 1) /\ [][C3_InsertStep]_vars

\* an insert has just succeeded while the other caller's insert call was
\* waiting for the connection, and the table holds both callers' rows
C3_Witness ==
    /\ dLast.stmt = "INSERT"
    /\ dLast.result = "Ok"
    /\ dLast.awaited
    /\ DVisible = Keys
    /\ \E u \in DirectTasks \ {dLast.by} : dcall[u].pc = "queued" /\ dcall[u].op = "exec"

\* the begin_transaction closures that found the flag false and have not yet
\* set it
SawNoTransaction == {t \in DirectTasks : dcall[t].op = "begin" /\ dcall[t].pc = "sql"}

C4_BeginStep ==
    \A t \in DirectTasks :
        (SqlReturns(t, "begin") /\ dLast'.result = "Ok") => ~in_transaction /\ in_transaction'

\* C4: of the begin_transaction calls that run concurrently on a connected
\* backend at most one is ever between its test of the flag and its setting
\* of it, what it observed (flag false) stays true until it sets the flag
\* because it holds both locks, and a begin_transaction returns success only
\* in the step that takes the flag from false to true; so two callers never
\* both observe "not in a transaction" and at most one of them succeeds.
C4_SingleCriticalSection ==
    /\ [](/\ Cardinality(SawNoTransaction) <= 1
          /\ \A t \in SawNoTransaction : ~in_transaction /\ flagLock = t /\ connLock = t)
    /\ [][C4_BeginStep]_vars

\* a begin_transaction has just succeeded while another caller's
\* begin_transaction was waiting for the flag lock
C4_Witness ==
    /\ dLast.op = "begin"
    /\ dLast.result = "Ok"
    /\ in_transaction
    /\ \E u \in DirectTasks \ {dLast.by} : dcall[u].pc = "queued" /\ dcall[u].op = "begin"

\* C5: a begin_transaction whose closure runs while the flag is true returns
\* TransactionError ("Already in a transaction") without handing BEGIN to the
\* engine, and leaves the flag true and the open transaction as it was.
C5_NestedBeginRejected ==
    [][\A t \in DirectTasks :
          (dcall[t].pc = "conn" /\ dcall[t].op = "begin" /\ in_transaction
              /\ dcall'[t].pc # "conn") =>
              /\ dcall'[t].pc = "idle"
              /\ dLast'.result = "TransactionError"
              /\ in_transaction'
              /\ UNCHANGED <<dTxn, dPending, dCommitted>>]_vars

\* C6: a begin_transaction, commit or rollback closure whose statement failed
\* leaves the flag as it found it (false after a failed BEGIN, true after a
\* failed COMMIT or ROLLBACK); the flag moves only in the step in which the
\* statement succeeded.
C6_FlagAfterSql ==
    [][\A t \in DirectTasks : \A op \in TxnOps :
          SqlReturns(t, op) =>
              /\ dLast'.result # "Ok" => in_transaction' = in_transaction
              /\ dLast'.result = "Ok" => in_transaction' = (op = "begin")
              /\ (op = "begin" /\ dLast'.result # "Ok") => ~in_transaction'
              /\ (op # "begin" /\ dLast'.result # "Ok") => in_transaction']_vars

\* a COMMIT has just failed in the engine and the flag is still true
C6_Witness ==
    /\ dLast.op = "commit"
    /\ dLast.result = "SqliteError"
    /\ dLast.fault
    /\ in_transaction
    /\ dTxn

(***************************************************************************)
(* Properties of both backends.                                            *)
(***************************************************************************)
\* a successful rollback on the direct backend, called on the backend or
\* through a TransactionGuard
C7_DirectStep ==
    \A t \in DirectTasks :
        (SqlReturns(t, "rollback") /\ dLast'.result = "Ok") =>
            /\ DVisible' = dAtBegin
            /\ dPending' = {}

\* task t's PooledTransaction::rollback succeeds in this step
PooledRollbackOk(t) ==
    /\ tx[t].live
    /\ ~tx'[t].live
    /\ pLast'.by = t
    /\ pLast'.op = "ROLLBACK"
    /\ pLast'.result = "Ok"

C7_PooledStep ==
    \A t \in PoolTasks :
        PooledRollbackOk(t) =>
            /\ pCommitted' = pCommitted
            /\ \A c \in Conns :
                  /\ tx[t].snapshot \subseteq pCommitted' \cup connPending'[c]
                  /\ tx[t].wrote \cap (pCommitted' \cup connPending'[c]) = {}
            /\ connPending'[tx[t].connection] = {}

Answered(t) ==
    /\ dLast'.by = t
    /\ dLast'.op \in {"exec"} \cup TxnOps

\* C18: a verb (execute, query, the parameterized variants, begin_transaction,
\* commit, rollback) that answers while the backend is not connected answers
\* ConnectionError, whatever the transaction flag holds, and leaves the flag
\* and the database as they were.
C18_NotConnected ==
    [][\A t \in DirectTasks :
          (Answered(t) /\ ~connection /\ ~connection') =>
              /\ dLast'.result = "ConnectionError"
              /\ UNCHANGED <<in_transaction, dCommitted, dTxn, dPending>>]_vars

\* C19: commit and rollback answer TransactionError when no transaction is
\* active and leave the backend as it was: on a connected direct backend
\* whose flag is down, and on the pooled backend when the connection the verb
\* borrowed has no transaction open.
C19_NoActiveTransaction ==
    [][/\ \A t \in DirectTasks :
             (/\ Answered(t)
              /\ dLast'.op \in {"commit", "rollback"}
              /\ connection
              /\ ~in_transaction)
             => /\ dLast'.result = "TransactionError"
                /\ UNCHANGED <<in_transaction, dCommitted, dTxn, dPending>>
       /\ \A t \in PoolTasks :
             (/\ VerbReturned(t)
              /\ pLast'.stmt \in {"COMMIT", "ROLLBACK"}
              /\ ~connTxn[call[t].conn]
              /\ pLast'.result \notin {"QueryTimeout", "Other"})
             => /\ pLast'.result = "TransactionError"
                /\ UNCHANGED <<pCommitted, connTxn, connPending>>]_vars


(***************************************************************************)
(* Teardown of TransactionGuard                                            *)
(***************************************************************************)
\* task t's guard has just been dropped without commit or rollback
TornDown(t) == dLast.op = "drop" /\ dLast.by = t

\* the rollback that the teardown of t's guard scheduled has just been
\* answered by its worker
AutoAnswered(t) == dLast.by = AutoOf(t) /\ dLast.result # "NoRuntime"

GuardReturnedOk(t, op) ==
    /\ dcall[t].guard /\ dcall[t].awaited
    /\ dLast'.by = t /\ dLast'.op = op /\ dLast'.result = "Ok"

\* C24 (as stated): when TransactionGuard::commit returns Ok, every row written
\* through the guard is committed, the guard is gone and its teardown has
\* scheduled no rollback; when TransactionGuard::rollback returns Ok, the
\* teardown has scheduled no rollback either.
C24_CommitKeepsGuardWrites ==
    [][\A t \in GuardUsers :
        /\ GuardReturnedOk(t, "commit") =>
              /\ tgWrote[t] \subseteq dCommitted'
              /\ ~tg'[t]
              /\ dcall'[AutoOf(t)].pc = "idle"
        /\ GuardReturnedOk(t, "rollback") =>
              /\ ~tg'[t]
              /\ dcall'[AutoOf(t)].pc = "idle"]_vars

\* C24 (amended): when TransactionGuard::commit returns Ok, every row of the
\* transaction its COMMIT ended is committed, and so is every row written
\* through the guard that was still visible; the backend is not in a
\* transaction, the guard is gone and its teardown has scheduled no rollback;
\* when TransactionGuard::rollback returns Ok, the teardown has scheduled no
\* rollback either.
C24_FinalizedTeardown ==
    [][\A t \in GuardUsers :
        /\ GuardReturnedOk(t, "commit") =>
              /\ dPending \subseteq dCommitted'
              /\ tgWrote[t] \cap DVisible \subseteq dCommitted'
              /\ ~in_transaction' /\ ~dTxn'
              /\ ~tg'[t]
              /\ dcall'[AutoOf(t)].pc = "idle"
        /\ GuardReturnedOk(t, "rollback") =>
              /\ ~in_transaction' /\ ~dTxn'
              /\ ~tg'[t]
              /\ dcall'[AutoOf(t)].pc = "idle"]_vars

\* a guard's commit has just returned Ok and the row written through the
\* guard is committed, with no closure scheduled
C24_Witness ==
    \E t \in GuardUsers : /\ dLast.by = t /\ dLast.op = "commit" /\ dLast.result = "Ok"
                          /\ dLast.awaited
                          /\ tgWrote[t] # {} /\ tgWrote[t] \subseteq dCommitted
                          /\ ~tg[t] /\ dcall[AutoOf(t)].pc = "idle"


(***************************************************************************)
(* Lifecycle of the direct backend                                         *)
(***************************************************************************)
\* connect or disconnect has just reset the transaction flag
FlagReset ==
    \E t \in DirectTasks :
        \/ dcall[t].pc = "connect_flag" /\ dcall'[t].pc = "queued"
        \/ dcall[t].pc = "idle" /\ dcall'[t].pc = "disconnect_conn"

\* C25: the transaction flag rises only when a begin_transaction succeeds and
\* falls only when a commit or rollback succeeds (or connect / disconnect
\* resets it); in_transaction() answers true exactly while the flag is up; and
\* after a successful commit or rollback neither the flag nor the engine holds
\* a transaction, so the next begin_transaction finds nothing in its way.
C25_Lifecycle ==
    [][/\ ~in_transaction /\ in_transaction' => dLast'.op = "begin" /\ dLast'.result = "Ok"
       /\ in_transaction /\ ~in_transaction' =>
             \/ dLast'.op \in {"commit", "rollback"} /\ dLast'.result = "Ok"
             \/ FlagReset
       /\ dLast'.op \in {"commit", "rollback"} /\ dLast'.result = "Ok" =>
             ~in_transaction' /\ ~dTxn'
       /\ dLast'.op = "in_transaction" => (dLast'.result = "true") = in_transaction]_vars


\* C26: when disconnect() returns, the backend holds no connection and the
\* transaction flag is false; when connect() returns Ok, the backend holds a
\* connection with no transaction open on it, so that execute can run, and
\* the flag is false.
C26_DisconnectReconnect ==
    [][/\ dLast'.op = "disconnect" /\ dLast'.result = "Ok" =>
             ~connection' /\ ~in_transaction'
       /\ dLast'.op = "open" /\ dLast'.result = "Ok" /\ dLast'.awaited =>
             connection' /\ ~dTxn' /\ ~in_transaction']_vars


(***************************************************************************)
(* Database::transaction                                                   *)
(***************************************************************************)
\* C27: the rows inserted by the closure of one invocation of
\* Database::transaction become durable by that invocation's COMMIT and by
\* nothing else: its COMMIT, when it succeeds, commits all of them and no row
\* of another invocation; its ROLLBACK, when it succeeds, leaves none of them
\* visible on any connection; and a statement of the closure commits nothing
\* by itself.
C27_OwnScope ==
    [][\A t \in PoolTasks :
        pLast'.by = t /\ pLast'.op = "transaction" =>
          /\ pLast'.stmt = "COMMIT" /\ pLast'.result = "Ok" =>
                /\ scope[t].wrote \subseteq pCommitted'
                /\ pCommitted' \ pCommitted \subseteq scope[t].wrote
          /\ pLast'.stmt = "ROLLBACK" /\ pLast'.result = "Ok" =>
                \A c \in Conns : scope[t].wrote \cap (pCommitted' \cup connPending'[c]) = {}
          /\ pLast'.stmt = "INSERT" => pCommitted' = pCommitted]_vars


(***************************************************************************)
(* Properties of MigrationManager.                                         *)
(***************************************************************************)
\* the highest version among the records, as current_version reports it
Highest(table) ==
    IF table = {} THEN NoVersion
    ELSE SomeVersion(CHOOSE x \in table : \A y \in table : y <= x)

\* up_sql, then the record, of each version in turn
RECURSIVE Applies(_)
Applies(versions) ==
    IF versions = <<>> THEN <<>>
    ELSE <<Statement("up", Head(versions)), Statement("record", Head(versions))>>
             \o Applies(Tail(versions))

\* down_sql, then the removal of the record, of each version in turn
RECURSIVE Reverts(_)
Reverts(versions) ==
    IF versions = <<>> THEN <<>>
    ELSE <<Statement("down", Head(versions)), Statement("unrecord", Head(versions))>>
             \o Reverts(Tail(versions))

ManagerReturned(op) == mLast.op = op /\ mLast.result = "Ok"

C28_MigrateOnce ==
    ManagerReturned("migrate") =>
        /\ mLast.versions = Ascending(migrations \ Recorded(mLast.applied0))
        /\ mLast.ran = Applies(mLast.versions)
        /\ Recorded(records) = Recorded(mLast.applied0) \cup migrations
        /\ current_version(records) = Highest(Recorded(records))

\* C28.  A migrate() that returns Ok has applied exactly the registered
\* migrations that had no record, in ascending version order, each by its
\* up_sql followed by the INSERT of its record, and returns those versions in
\* that order; afterwards current_version() is the highest recorded version;
\* and a migrate() that follows it runs no statement, changes nothing and,
\* when it returns Ok, returns the empty list.
C28_Migrate ==
    /\ []C28_MigrateOnce
    /\ [][(ManagerReturned("migrate") /\ mLast'.op = "migrate") =>
              /\ mLast'.ran = <<>>
              /\ mLast'.versions = <<>>
              /\ records' = records
              /\ schema' = schema]_vars

\* migrate() skipped a recorded migration and applied two others
C28_Witness ==
    /\ ManagerReturned("migrate")
    /\ Recorded(mLast.applied0) \cap migrations # {}
    /\ Len(mLast.versions) = 2
    /\ current_version(records) = SomeVersion(MaxVersion)


\* C29.  A migrate_to(t) that returns Ok: when t is above the current version
\* (or nothing is applied yet) it has applied, in ascending order, every
\* pending migration with version <= t and none above t; when t is below the
\* current version it has reverted, in descending order, every applied
\* migration with version > t and none at or below t; when t equals the
\* current version it has done nothing; and in each case current_version()
\* afterwards is the highest applied version <= t.
C29_MigrateTo ==
    ManagerReturned("migrate_to") =>
        LET t == mLast.arg
            current == Highest(Recorded(mLast.applied0))
        IN  /\ (~current.some \/ t > current.value) =>
                   /\ mLast.versions
                          = Ascending({v \in migrations \ Recorded(mLast.applied0) : v <= t})
                   /\ mLast.ran = Applies(mLast.versions)
            /\ (current.some /\ t < current.value) =>
                   /\ mLast.versions
                          = Reversed(Ascending({v \in Recorded(mLast.applied0) : v > t}))
                   /\ mLast.ran = Reverts(mLast.versions)
            /\ (current.some /\ t = current.value) =>
                   /\ mLast.versions = <<>>
                   /\ mLast.ran = <<>>
            /\ current_version(records) = Highest({v \in Recorded(records) : v <= t})

\* how many migrations rollback(steps) is to revert
RevertCount(steps, table) == IF steps < Len(table) THEN steps ELSE Len(table)

\* rollback(0) changes nothing, and a reset() that returns Ok has reverted
\* every applied migration, newest version first, and leaves no record
RollbackZeroAndReset ==
    /\ (mLast.op = "rollback" /\ mLast.arg = 0) =>
           /\ mLast.ran = <<>>
           /\ mLast.versions = <<>>
           /\ records = mLast.applied0
    /\ ManagerReturned("reset") =>
           /\ mLast.versions = Reversed(Ascending(Recorded(mLast.applied0)))
           /\ mLast.ran = Reverts(mLast.versions)
           /\ records = <<>>
           /\ current_version(records) = NoVersion

C31_HandleTeardown ==
    [][dLast'.op = "drop_db" =>
          /\ ~in_transaction => dLast'.stmt = "none"
          /\ dLast'.stmt = "ROLLBACK" =>
                 in_transaction /\ lock_free(flagLock) /\ lock_free(connLock)
          /\ (in_transaction /\ lock_free(flagLock) /\ lock_free(connLock) /\ connection) =>
                 dLast'.stmt = "ROLLBACK"
          /\ dropped'
          /\ in_transaction' = in_transaction
          /\ UNCHANGED <<connLock, flagLock, dcall, tg>>
          /\ dLast'.result = "Ok" => ~dTxn' /\ dPending' = {}
          /\ (dLast'.result = "SqliteError" /\ connection') =>
                 UNCHANGED <<dCommitted, dTxn, dPending>>
          /\ dCommitted' = dCommitted]_vars

\* a handle was dropped with its flag up and a row pending: the ROLLBACK of
\* the teardown discarded the row
C31_Witness ==
    /\ dLast.op = "drop_db"
    /\ dLast.result = "Ok"
    /\ dLast.undone # {}
    /\ in_transaction
    /\ dropped

(***************************************************************************)
(* The two locks of the direct backend                                     *)
(***************************************************************************)
\* a step of a call in flight that is neither its timeout nor a new call
LockStep ==
    \E t \in DirectTasks :
        \/ WorkerLockFlag(t) \/ WorkerLockConn(t) \/ WorkerCheck(t) \/ WorkerSql(t)
        \/ ConnectReset(t) \/ WorkerOpenFails(t) \/ WorkerOpen(t) \/ DisconnectConn(t)

C32_LockOrder ==
    \A t \in DirectTasks :
        /\ connLock = t => dcall[t].pc \in {"conn", "sql"}
        /\ flagLock = t => dcall[t].op \in TxnOps /\ dcall[t].pc \in {"flag", "conn", "sql"}
        /\ (connLock = t /\ dcall[t].op \in TxnOps) => flagLock = t

\* C32: the direct backend does not deadlock on its two locks.  Whoever holds
\* the connection lock waits for nothing; whoever holds the flag lock is a
\* transaction verb that waits at most for the connection lock; a transaction
\* verb takes the flag lock first and the connection lock while it holds the
\* flag lock; and whenever a call is in flight, some call can take a step of
\* its own, without a timeout and without a new call.
C32_NoDeadlock ==
    /\ [](C32_LockOrder /\ ((\E t \in DirectTasks : dcall[t].pc # "idle") => ENABLED LockStep))
    /\ [][\A t \in DirectTasks :
              /\ (flagLock' = t /\ flagLock # t) => connLock # t /\ connLock' # t
              /\ (connLock' = t /\ connLock # t /\ dcall[t].op \in TxnOps) => flagLock = t]_vars

\* a transaction verb holds the flag lock and waits for the connection lock,
\* which the closure of an execute holds
C32_Witness ==
    \E t1, t2 \in DirectTasks :
        /\ flagLock = t1 /\ dcall[t1].pc = "flag"
        /\ connLock = t2 /\ dcall[t2].op = "exec"

\* C33: on the direct backend the transaction flag is true only while the
\* backend holds a connection on which a BEGIN succeeded and no COMMIT or
\* ROLLBACK has succeeded since: never while the connection is absent, and
\* never on a connection that has no transaction open.
C33_FlagMeansOpenTransaction == in_transaction => connection /\ dTxn


(***************************************************************************)
(* begin_transaction that failed at its caller                             *)
(***************************************************************************)
\* the closure of a begin_transaction whose caller has been answered
\* QueryTimeout is still on the blocking pool
BeginAbandoned(t) == /\ dcall[t].pc # "idle"
                     /\ dcall[t].op = "begin"
                     /\ ~dcall[t].awaited

\* C34: a begin_transaction that returned an error to its caller, QueryTimeout
\* included, does not set the transaction flag to true at any later time; the
\* closure abandoned on timeout never raises the flag.
C34_FailedBeginLeavesFlag ==
    [][\A t \in DirectTasks :
          BeginAbandoned(t) /\ dcall'[t].pc = "idle" /\ ~in_transaction => ~in_transaction']_vars


(***************************************************************************)
(* Whose transaction the rollback of a teardown ends                       *)
(***************************************************************************)
\* the rollback that the teardown of t's guard scheduled has, in this step,
\* had its ROLLBACK accepted by the engine
AutoRolledBack(t) == dLast'.by = AutoOf(t) /\ dLast'.op = "rollback" /\ dLast'.result = "Ok"

\* C35: the rollback scheduled by the teardown of a TransactionGuard only ever
\* ends the transaction that this guard began, never one begun by a later
\* begin_transaction on the same backend.
C35_AutoRollbackOwnTransaction ==
    [][\A t \in GuardUsers : AutoRolledBack(t) => dBegunBy = t]_vars


(***************************************************************************)
(* A finalize that fails                                                   *)
(***************************************************************************)
\* in this step the caller of TransactionGuard::commit or ::rollback gets its
\* answer from the backend, and the answer is an error
FinalizeFailed(t) ==
    /\ dcall[t].guard /\ dcall[t].op \in {"commit", "rollback"}
    /\ dcall[t].awaited /\ ~dcall'[t].awaited
    /\ dLast'.result # "Ok"

\* C36: when TransactionGuard::commit or ::rollback returns an error from the
\* backend (a timeout included), neither flag of the guard has been stored, so
\* the teardown of the consumed guard schedules the automatic rollback: the
\* guard is gone and the closure that calls db.rollback() is on the blocking
\* pool, whether or not the backend's transaction is still open.
C36_FailedFinalizeSchedulesRollback ==
    [][\A t \in GuardUsers :
          FinalizeFailed(t) => /\ ~tg'[t]
                               /\ dcall'[AutoOf(t)] = AutoCall]_vars

\* a guard's commit has just failed in the engine: the transaction is still
\* open with the guard's row pending, and the rollback is scheduled
C36_Witness ==
    \E t \in GuardUsers : /\ dLast.by = t /\ dLast.op = "commit" /\ dLast.awaited
                          /\ dLast.result = "SqliteError"
                          /\ in_transaction /\ dTxn /\ tgWrote[t] # {}
                          /\ tgWrote[t] \subseteq dPending
                          /\ ~tg[t] /\ dcall[AutoOf(t)] = AutoCall


(***************************************************************************)
(* Database::transaction(f) on the direct backend                          *)
(***************************************************************************)
\* in this step transaction(f) returns to task t: begin_transaction has
\* answered an error, or commit or rollback has answered
TransactionReturns(t) ==
    /\ dcall[t].guard /\ dcall[t].awaited /\ ~dcall'[t].awaited
    /\ \/ dcall[t].op = "begin" /\ dLast'.result # "Ok"
       \/ dcall[t].op \in {"commit", "rollback"}

\* C37: after Database::transaction(f) returns on the direct backend, with Ok
\* or with Err, the backend is not in a transaction: the flag is false and the
\* engine has no open transaction, also when the closure failed, when the
\* rollback after a failing closure failed and when the COMMIT failed.
C37_TransactionLeavesNone ==
    [][\A t \in TransactionCallers :
          TransactionReturns(t) => ~in_transaction' /\ ~dTxn']_vars


(***************************************************************************)
(* Idle connections of the pool                                            *)
(***************************************************************************)
\* C38: every connection that sits idle in the pool has no open SQL
\* transaction: whatever verbs of PooledSqliteDatabase and whatever begin,
\* commit, rollback and drop of PooledTransaction came before, the connection
\* handed to the next borrower is outside any transaction.
C38_IdleOutsideTransaction == \A c \in Idle : ~connTxn[c]


(***************************************************************************)
(* The synchronous observers of the direct backend                         *)
(***************************************************************************)
\* C39: is_connected() answers true whenever a connection is present and
\* in_transaction() answers the current value of the transaction flag, also
\* while another call on the backend is in flight and holds the connection
\* lock or the flag lock.
C39_ObserversAccurate ==
    [][/\ dLast'.op = "is_connected" => (dLast'.result = "true") = connection
       /\ dLast'.op = "in_transaction" => (dLast'.result = "true") = in_transaction]_vars


(***************************************************************************)
(* The tracking table and the schema                                       *)
(***************************************************************************)
\* C40: wherever migrate, migrate_to, rollback or reset returns, with success
\* or with the error of any step, the versions recorded in the tracking table
\* are the migrations whose up SQL has been executed and whose down SQL has
\* not been executed since.
C40_RecordsMatchSchema == Recorded(records) = schema

=============================================================================
